---- MODULE Spec2Model ----
(***************************************************************************)
(* Secure messaging core of decentralized-chat-blockchain:                 *)
(*   src/src/crypto/double_ratchet.py          (DoubleRatchet)             *)
(*   src/src/crypto/advanced_crypto_manager.py (X3DHKeyManager,            *)
(*                       RatchetKeyManager, AdvancedCryptoManager)         *)
(*                                                                         *)
(* Byte strings are modelled as strings that spell how they were computed  *)
(* (a free term algebra): HKDF, X25519 and SecretBox are injective         *)
(* constructors, so two byte strings are equal in the model exactly when   *)
(* the code computes them the same way from the same inputs.  X25519 is    *)
(* commutative on key pairs, and + on bytes is concatenation.              *)
(***************************************************************************)
EXTENDS Integers, Sequences, FiniteSets, TLC

VARIABLES
    ratchet,        \* SpecRatchet: the two DoubleRatchet objects of TestDoubleRatchet.setUp
    key_counter,    \* number of PrivateKey.generate() calls so far (next fresh key id)
    sent,           \* history: per ratchet, the (num, key, chain) returned by get_next_send_key
    got,            \* history: per ratchet, the (num, key) returned by get_next_recv_key
    chains,         \* history: per ratchet, how many times each chain was restarted
    last,           \* the last DoubleRatchet operation and its outcome
    x3dh,           \* Spec: per manager, its X3DHKeyManager
    ratchet_managers, \* per manager, session id -> RatchetKeyManager
    session_counter,  \* per manager, AdvancedCryptoManager.session_counter
    bundles,        \* history: the identity infos served by get_identity_info, in order
    requests,       \* session requests in flight (ephemeral key + initiator identity info)
    wire,           \* encrypted messages in flight
    peer,           \* history: responder session -> the initiator session it answers
    delivered,      \* history: per session, the message numbers handed to decrypt_message
    plaintexts,     \* history: per session, the (msg_num, plaintext) decrypt_message returned
    opk_used,       \* history: per manager, the one-time prekeys used by respond_to_session_request
    res             \* the last AdvancedCryptoManager operation and its outcome

VARIABLES
    handlers,       \* SpecServer: per connection, the SecureNodeServer.handle_client coroutine
    active_sessions, \* SecureNodeServer.active_sessions: session id -> connection
    established,    \* number of sessions the server's crypto manager has created
    obf,            \* SpecObfuscate: a payload, the method, and what obfuscate / deobfuscate made of it
    written,        \* SpecJson: history, what was passed to the writer, in order
    transit,        \* bytes the writer has written that have not reached the reader
    buffer,         \* bytes in the StreamReader that no readexactly has returned yet
    writer_closed,  \* the writing end was closed (end of stream follows the last byte)
    reader,         \* the reading coroutine: where it waits, the length it unpacked last,
                    \* and how its last read_json ended (a whole frame, or end of stream)
    results,        \* history: what the read_json calls returned, in order
    senders,        \* SpecSend: per task, where it is in send_secure_message (and the
                    \* message number it holds, if it has encrypted and not yet written)
    next_msg_num,   \* the send_message_num of the session's ratchet
    write_buffer,   \* the frames (by message number) in the transport's write buffer
    paused,         \* the transport has paused the protocol (buffer above the high-water mark)
    on_wire,        \* history: the frames the transport has put on the wire, in order
    local_id,       \* SpecDHT: KademliaDHT.node_id, as the integer its hex digits denote
    buckets,        \* KademliaDHT.buckets: index -> the nodes list of the KBucket
    node_cache,     \* KademliaDHT.node_cache: node id -> Node
    clock,          \* time.time(), in seconds
    dht_ops,        \* number of add_node / remove_node calls so far
    dht_last,       \* the last KademliaDHT operation
    rtm,            \* SpecRoute: a RoutingTableManager, the clock and its last operation
    twin,           \* SpecTwin: two RatchetKeyManager objects built from one shared secret
    chan,           \* SpecChan: one connection's StreamWriter, the tasks sending on it and the wire
    bcast,          \* SpecBroadcast: SecureNodeServer.peer_connections and a broadcast_message call
    replay          \* SpecReplay: an AntiReplayManager, the clock and its last call

varsRatchet == <<ratchet, sent, got, chains, last>>

varsSession == <<x3dh, ratchet_managers, session_counter, bundles, requests, wire, peer,
                 delivered, plaintexts, opk_used, res>>

varsServer == <<handlers, active_sessions, established>>
varsObf == <<obf>>
varsStream == <<written, transit, buffer, writer_closed, reader, results>>
varsSend == <<senders, next_msg_num, write_buffer, paused, on_wire>>
varsDHT == <<local_id, buckets, node_cache, clock, dht_ops, dht_last>>
varsRoute == <<rtm>>
varsTwin == <<twin>>
varsChan == <<chan>>
varsBcast == <<bcast>>
varsReplay == <<replay>>
varsNet == <<varsServer, varsObf, varsStream, varsSend, varsDHT, varsRoute, varsTwin, varsChan, varsBcast, varsReplay>>

vars == <<key_counter, varsRatchet, varsSession, varsNet>>

\* what the specifications of each part leave alone
notRatchet == <<varsSession, varsNet>>
notSession == <<varsRatchet, varsNet>>
notServer == <<key_counter, varsRatchet, varsSession, varsObf, varsStream, varsSend, varsDHT, varsRoute, varsTwin, varsChan, varsBcast, varsReplay>>
notObf == <<key_counter, varsRatchet, varsSession, varsServer, varsStream, varsSend, varsDHT, varsRoute, varsTwin, varsChan, varsBcast, varsReplay>>
notStream == <<key_counter, varsRatchet, varsSession, varsServer, varsObf, varsSend, varsDHT, varsRoute, varsTwin, varsChan, varsBcast, varsReplay>>
notSend == <<key_counter, varsRatchet, varsSession, varsServer, varsObf, varsStream, varsDHT, varsRoute, varsTwin, varsChan, varsBcast, varsReplay>>
notDHT == <<key_counter, varsRatchet, varsSession, varsServer, varsObf, varsStream, varsSend, varsRoute, varsTwin, varsChan, varsBcast, varsReplay>>
notRoute == <<key_counter, varsRatchet, varsSession, varsServer, varsObf, varsStream, varsSend, varsDHT, varsTwin, varsChan, varsBcast, varsReplay>>
notTwin == <<key_counter, varsRatchet, varsSession, varsServer, varsObf, varsStream, varsSend, varsDHT, varsRoute, varsChan, varsBcast, varsReplay>>
notChan == <<key_counter, varsRatchet, varsSession, varsServer, varsObf, varsStream, varsSend, varsDHT, varsRoute, varsTwin, varsBcast, varsReplay>>
notBcast == <<key_counter, varsRatchet, varsSession, varsServer, varsObf, varsStream, varsSend, varsDHT, varsRoute, varsTwin, varsChan, varsReplay>>
notReplay == <<key_counter, varsRatchet, varsSession, varsServer, varsObf, varsStream, varsSend, varsDHT, varsRoute, varsTwin, varsChan, varsBcast>>

\* no SecureNodeServer exists
IdleServer ==
    /\ handlers = << >>
    /\ active_sessions = {}
    /\ established = 0

\* no payload is being obfuscated
IdleObf == obf = << >>

\* no connection exists
IdleStream ==
    /\ written = << >>
    /\ transit = << >>
    /\ buffer = << >>
    /\ writer_closed = FALSE
    /\ reader = << >>
    /\ results = << >>

\* no task sends
IdleSend ==
    /\ senders = << >>
    /\ next_msg_num = 0
    /\ write_buffer = << >>
    /\ paused = FALSE
    /\ on_wire = << >>

\* no KademliaDHT exists
IdleDHT ==
    /\ local_id = 0
    /\ buckets = << >>
    /\ node_cache = << >>
    /\ clock = 0
    /\ dht_ops = 0
    /\ dht_last = << >>

\* no RoutingTableManager exists
IdleRoute == rtm = << >>

\* no such pair of RatchetKeyManager objects exists
IdleTwin == twin = << >>
IdleChan == chan = << >>
IdleBcast == bcast = << >>
IdleReplay == replay = << >>

IdleNet == IdleServer /\ IdleObf /\ IdleStream /\ IdleSend /\ IdleDHT /\ IdleRoute /\ IdleTwin /\ IdleChan /\ IdleBcast /\ IdleReplay

(***************************************************************************)
(* Bounds of the model                                                     *)
(***************************************************************************)
MaxMsgNum == 2          \* message numbers presented to a ratchet are 0..MaxMsgNum
MaxSends == 2           \* get_next_send_key calls, over both ratchets
MaxRatchetSteps == 1    \* advance_recv_chain / set_peer_ratchet_pub calls, over both ratchets
MaxKeyId == 31          \* key pairs are numbered 0..MaxKeyId
MaxSkipMsgNum == 4      \* SpecSkip: honest message numbers are 0..MaxSkipMsgNum
MaxBundles == 2         \* Spec: get_identity_info calls, over both managers
MaxSessions == 2        \* Spec: sessions per manager
MaxWire == 2            \* Spec: encrypt_message calls, over all sessions
MaxReads == 2           \* SpecServer: read_secure_message calls per connection
MaxPayloadLen == 2      \* SpecObfuscate: payloads of 0..MaxPayloadLen bytes (and one of 126)
MaxExtraPad == 1        \* SpecObfuscate: padding lengths up to MaxExtraPad above the least
MaxDocs == 2            \* SpecJson: send_json calls on the connection
MaxFrames == 2          \* SpecFrame: frames the peer writes on the connection
MaxSendFrames == 67     \* SpecSend: send_secure_message calls on the connection
FrameBytes == 1000      \* SpecSend: bytes of one frame (header and obfuscated message)
IdBits == 2             \* SpecDHT: node ids are 0 .. 2^IdBits - 1
MaxDhtOps == 2          \* SpecDHT: add_node / remove_node calls after the initial table
MaxTwinSends == 2       \* SpecTwin: encrypt_message calls of each of the two managers
MaxChanFrames == 4      \* SpecChan: frames sent on the connection
MaxHealthPeers == 6     \* SpecHealth: peers in the routing table
MaxHealthRounds == 3    \* SpecHealth: rounds of the health-check loop
MaxHealthAdds == 1      \* SpecHealth: add_node calls during the rounds
MaxNonces == 1001       \* SpecReplay: distinct nonces of the sender
MaxReplayTime == 1      \* SpecReplay: seconds that pass

(***************************************************************************)
(* Constants of the specification                                          *)
(***************************************************************************)
MAX_SKIP == 1000
MAX_CONSECUTIVE_AUTH_FAIL == 8
MAX_FRAME == 16 * 1024 * 1024
QUEUE_CAPACITY == 64

Ratchets == {1, 2}
Tasks == {"handler", "broadcast"}

(***************************************************************************)
(* Byte strings                                                            *)
(***************************************************************************)
Min(a, b) == IF a <= b THEN a ELSE b
Max(a, b) == IF a <= b THEN b ELSE a

\* PrivateKey.encode() and PublicKey.encode() of the i-th generated key pair
PrivateKeyBytes(i) == "sk" \o ToString(i) \o ";"
PublicKeyBytes(i) == "pk" \o ToString(i) \o ";"

KeyIds == 0..MaxKeyId
IsPrivateKeyBytes(b) == \E i \in KeyIds : b = PrivateKeyBytes(i)
IsPublicKeyBytes(b) == \E i \in KeyIds : b = PublicKeyBytes(i)
KeyIdOf(b) == CHOOSE i \in KeyIds : b = PrivateKeyBytes(i) \/ b = PublicKeyBytes(i)

\* nacl.bindings.crypto_scalarmult(n, p): X25519.  On a scalar and the public
\* key of a scalar it is commutative; on any other 32 bytes taken as a point
\* it is a value no honest key pair reproduces.
crypto_scalarmult(n, p) ==
    IF IsPrivateKeyBytes(n) /\ IsPublicKeyBytes(p)
    THEN "X25519(" \o ToString(Min(KeyIdOf(n), KeyIdOf(p))) \o ","
                   \o ToString(Max(KeyIdOf(n), KeyIdOf(p))) \o ")"
    ELSE "X25519(" \o n \o "*" \o p \o ")"

\* HKDF(SHA256, length=32, salt=None, info).derive(input_key)
hkdf(input_key, info) == "HKDF(" \o input_key \o "|" \o info \o ")"

\* DoubleRatchet._kdf_ratchet: (next_chain_key, output_key)
kdf_ratchet(chain_key, info) ==
    [next_chain_key |-> hkdf(chain_key, info \o "_next"),
     output_key |-> hkdf(chain_key, info \o "_output")]

send_info(n) == "send_" \o ToString(n)
recv_info(n) == "recv_" \o ToString(n)

(***************************************************************************)
(* DoubleRatchet                                                           *)
(***************************************************************************)
\* DoubleRatchet.__init__; k1, k2 are the ids of the two generated key pairs
DoubleRatchetInit(shared_secret, k1, k2) ==
    LET root_key == hkdf(shared_secret, "root_key") IN
    [shared_secret |-> shared_secret,
     root_key |-> root_key,
     send_chain_key |-> hkdf(root_key, "send_chain_key"),
     send_ratchet_key |-> k1,
     recv_chain_key |-> hkdf(root_key, "recv_chain_key"),
     recv_ratchet_key |-> k2,
     send_message_num |-> 0,
     recv_message_num |-> 0,
     previous_send_chain_length |-> 0,
     saved_keys |-> << >>]

\* a plausible slip: the counter is not advanced
GetNextSendKeyNoIncrement(r) ==
    LET k == kdf_ratchet(r.send_chain_key, send_info(r.send_message_num)) IN
    [r |-> [r EXCEPT !.send_chain_key = k.next_chain_key],
     msg_key |-> k.output_key,
     msg_num |-> r.send_message_num]

\* DoubleRatchet.get_next_send_key: the new state and the returned (msg_key, msg_num)
GetNextSendKey(r) ==
    LET k == kdf_ratchet(r.send_chain_key, send_info(r.send_message_num)) IN
    [r |-> [r EXCEPT !.send_chain_key = k.next_chain_key,
                     !.send_message_num = r.send_message_num + 1],
     msg_key |-> k.output_key,
     msg_num |-> r.send_message_num]

\* The loop of get_next_recv_key (lines 89-95) over range(lo, hi), run from
\* chain key ck: the chain key after it and the keys it saved.  The range is
\* run as its lower half followed by its upper half, each half bound as a
\* value before the next starts, so that the evaluation depth is logarithmic
\* in hi - lo.
RECURSIVE SkipKeys(_, _, _)
SkipKeys(ck, lo, hi) ==
    IF lo >= hi THEN [ck |-> ck, saved |-> << >>]
    ELSE IF hi = lo + 1
    THEN LET k == kdf_ratchet(ck, recv_info(lo)) IN
         [ck |-> k.next_chain_key, saved |-> (lo :> k.output_key)]
    ELSE LET mid == (lo + hi) \div 2 IN
         CHOOSE s \in { [ck |-> b.ck, saved |-> a.saved @@ b.saved] :
                            <<a, b>> \in { <<a2, SkipKeys(a2.ck, mid, hi)>> :
                                               a2 \in {SkipKeys(ck, lo, mid)} } } : TRUE

\* d with key n deleted
Without(d, n) == [i \in (DOMAIN d) \ {n} |-> d[i]]

\* a plausible slip: a saved key is returned but not deleted
GetNextRecvKeyKeepSaved(r, msg_num) ==
    IF msg_num \in DOMAIN r.saved_keys
    THEN [ok |-> TRUE, r |-> r, msg_key |-> r.saved_keys[msg_num]]
    ELSE IF msg_num >= r.recv_message_num
    THEN LET s == SkipKeys(r.recv_chain_key, r.recv_message_num, msg_num)
             k == kdf_ratchet(s.ck, recv_info(msg_num))
         IN [ok |-> TRUE,
             r |-> [r EXCEPT !.recv_chain_key = k.next_chain_key,
                             !.saved_keys = s.saved @@ r.saved_keys,
                             !.recv_message_num = msg_num + 1],
             msg_key |-> k.output_key]
    ELSE [ok |-> FALSE, r |-> r, msg_key |-> ""]

\* a plausible slip: the keys of the skipped numbers are not saved
GetNextRecvKeyNoSave(r, msg_num) ==
    IF msg_num \in DOMAIN r.saved_keys
    THEN [ok |-> TRUE,
          r |-> [r EXCEPT !.saved_keys = Without(r.saved_keys, msg_num)],
          msg_key |-> r.saved_keys[msg_num]]
    ELSE IF msg_num >= r.recv_message_num
    THEN LET s == SkipKeys(r.recv_chain_key, r.recv_message_num, msg_num)
             k == kdf_ratchet(s.ck, recv_info(msg_num))
         IN [ok |-> TRUE,
             r |-> [r EXCEPT !.recv_chain_key = k.next_chain_key,
                             !.recv_message_num = msg_num + 1],
             msg_key |-> k.output_key]
    ELSE [ok |-> FALSE, r |-> r, msg_key |-> ""]

\* DoubleRatchet.get_next_recv_key: ok = FALSE is the ValueError of line 114
GetNextRecvKey(r, msg_num) ==
    IF msg_num \in DOMAIN r.saved_keys
    THEN [ok |-> TRUE,
          r |-> [r EXCEPT !.saved_keys = Without(r.saved_keys, msg_num)],
          msg_key |-> r.saved_keys[msg_num]]
    ELSE IF msg_num > r.recv_message_num
    THEN LET s == SkipKeys(r.recv_chain_key, r.recv_message_num, msg_num)
             k == kdf_ratchet(s.ck, recv_info(msg_num))
         IN [ok |-> TRUE,
             r |-> [r EXCEPT !.recv_chain_key = k.next_chain_key,
                             !.saved_keys = s.saved @@ r.saved_keys,
                             !.recv_message_num = msg_num + 1],
             msg_key |-> k.output_key]
    ELSE IF msg_num = r.recv_message_num
    THEN LET k == kdf_ratchet(r.recv_chain_key, recv_info(msg_num)) IN
         [ok |-> TRUE,
          r |-> [r EXCEPT !.recv_chain_key = k.next_chain_key,
                          !.recv_message_num = msg_num + 1],
          msg_key |-> k.output_key]
    ELSE [ok |-> FALSE, r |-> r, msg_key |-> ""]

\* DoubleRatchet.advance_recv_chain; k is the id of the generated key pair
AdvanceRecvChain(r, k) ==
    LET dh_result == crypto_scalarmult(PrivateKeyBytes(r.send_ratchet_key),
                                       PublicKeyBytes(r.recv_ratchet_key))
        root_key == hkdf(r.root_key \o dh_result, "update_root_key")
    IN [r EXCEPT !.previous_send_chain_length = r.send_message_num,
                 !.send_message_num = 0,
                 !.root_key = root_key,
                 !.send_chain_key = hkdf(root_key, "send_chain_key"),
                 !.send_ratchet_key = k]

\* DoubleRatchet.advance_send_chain; k is the id of the generated key pair
AdvanceSendChain(r, k) ==
    LET dh_result == crypto_scalarmult(PrivateKeyBytes(r.recv_ratchet_key),
                                       PublicKeyBytes(r.send_ratchet_key))
        root_key == hkdf(r.root_key \o dh_result, "update_root_key")
    IN [r EXCEPT !.root_key = root_key,
                 !.recv_chain_key = hkdf(root_key, "recv_chain_key"),
                 !.recv_ratchet_key = k]

\* DoubleRatchet.set_peer_ratchet_pub: the peer's key is not used
SetPeerRatchetPub(r, peer_pub_bytes, k) == AdvanceSendChain(r, k)

(***************************************************************************)
(* SpecRatchet: two DoubleRatchet objects built from one shared secret     *)
(* (TestDoubleRatchet.setUp), driven by any interleaving of their methods. *)
(***************************************************************************)
test_shared_secret == "test_shared_secret_for_ratchet"

NoOp == [op |-> "none", r |-> 0, n |-> 0, ok |-> TRUE, key |-> ""]

NoRes == [op |-> "none", m |-> "", sid |-> "", ok |-> TRUE, error |-> "", plaintext |-> "",
          arg |-> << >>, before |-> << >>, first |-> FALSE]

\* no AdvancedCryptoManager exists
IdleSession ==
    /\ x3dh = << >>
    /\ ratchet_managers = << >>
    /\ session_counter = << >>
    /\ bundles = << >>
    /\ requests = {}
    /\ wire = {}
    /\ peer = {}
    /\ delivered = {}
    /\ plaintexts = {}
    /\ opk_used = << >>
    /\ res = NoRes

InitRatchet ==
    /\ ratchet = [r \in Ratchets |-> DoubleRatchetInit(test_shared_secret, 2 * r - 2, 2 * r - 1)]
    /\ key_counter = 4
    /\ sent = [r \in Ratchets |-> << >>]
    /\ got = [r \in Ratchets |-> {}]
    /\ chains = [r \in Ratchets |-> [send |-> 0, recv |-> 0]]
    /\ last = NoOp
    /\ IdleSession
    /\ IdleNet

TotalSends == Len(sent[1]) + Len(sent[2])
TotalSteps == key_counter - 4

\* a task calls get_next_send_key on ratchet r (no suspension point inside)
SendKey(r, t) ==
    /\ TotalSends < MaxSends
    /\ LET s == GetNextSendKey(ratchet[r]) IN
        /\ ratchet' = [ratchet EXCEPT ![r] = s.r]
        /\ sent' = [sent EXCEPT ![r] = Append(@, [num |-> s.msg_num, key |-> s.msg_key,
                                                   chain |-> chains[r].send])]
        /\ last' = [op |-> "send", r |-> r, n |-> s.msg_num, ok |-> TRUE, key |-> s.msg_key]
    /\ UNCHANGED <<key_counter, got, chains>>
    /\ UNCHANGED notRatchet

\* get_next_recv_key(n) on ratchet r, for any message number a header may carry
RecvKey(r, n) ==
    /\ LET g == GetNextRecvKey(ratchet[r], n) IN
        /\ ratchet' = [ratchet EXCEPT ![r] = g.r]
        /\ got' = IF g.ok THEN [got EXCEPT ![r] = @ \cup {[num |-> n, key |-> g.msg_key,
                                                            chain |-> chains[r].recv]}]
                  ELSE got
        /\ last' = [op |-> "recv", r |-> r, n |-> n, ok |-> g.ok, key |-> g.msg_key]
    /\ UNCHANGED <<key_counter, sent, chains>>
    /\ UNCHANGED notRatchet

\* advance_recv_chain on ratchet r
AdvanceRecv(r) ==
    /\ TotalSteps < MaxRatchetSteps
    /\ ratchet' = [ratchet EXCEPT ![r] = AdvanceRecvChain(@, key_counter)]
    /\ key_counter' = key_counter + 1
    /\ chains' = [chains EXCEPT ![r].send = @ + 1]
    /\ last' = [op |-> "advance_recv_chain", r |-> r, n |-> 0, ok |-> TRUE, key |-> ""]
    /\ UNCHANGED <<sent, got>>
    /\ UNCHANGED notRatchet

\* set_peer_ratchet_pub on ratchet r with the other ratchet's send ratchet public key
SetPeerPub(r) ==
    /\ TotalSteps < MaxRatchetSteps
    /\ \E p \in Ratchets \ {r} :
        ratchet' = [ratchet EXCEPT ![r] =
            SetPeerRatchetPub(@, PublicKeyBytes(ratchet[p].send_ratchet_key), key_counter)]
    /\ key_counter' = key_counter + 1
    /\ chains' = [chains EXCEPT ![r].recv = @ + 1]
    /\ last' = [op |-> "set_peer_ratchet_pub", r |-> r, n |-> 0, ok |-> TRUE, key |-> ""]
    /\ UNCHANGED <<sent, got>>
    /\ UNCHANGED notRatchet

NextRatchet ==
    \/ \E r \in Ratchets, t \in Tasks : SendKey(r, t)
    \/ \E r \in Ratchets, n \in 0..MaxMsgNum : RecvKey(r, n)
    \/ \E r \in Ratchets : AdvanceRecv(r)
    \/ \E r \in Ratchets : SetPeerPub(r)

SpecRatchet == InitRatchet /\ [][NextRatchet]_vars

(***************************************************************************)
(* SpecChain: one DoubleRatchet object driven by any sequence of its       *)
(* methods (the other object stays as constructed).                        *)
(***************************************************************************)
NextChain ==
    \/ \E t \in Tasks : SendKey(1, t)
    \/ \E n \in 0..MaxMsgNum : RecvKey(1, n)
    \/ AdvanceRecv(1)
    \/ SetPeerPub(1)

SpecChain == InitRatchet /\ [][NextChain]_vars

(***************************************************************************)
(* SpecSkip: one receiving DoubleRatchet; headers carry either an honest   *)
(* message number or the forged number ForgedMsgNum.  A ratchet that took  *)
(* the forged number is not driven further.                                *)
(***************************************************************************)
ForgedMsgNum == MAX_SKIP + 1

Flooded == ratchet[2].recv_message_num > MaxSkipMsgNum + 1

SkipRecvHonest(n) == ~Flooded /\ RecvKey(2, n)

SkipRecvForged == ~Flooded /\ RecvKey(2, ForgedMsgNum)

NextSkip ==
    \/ \E n \in 0..MaxSkipMsgNum : SkipRecvHonest(n)
    \/ SkipRecvForged

SpecSkip == InitRatchet /\ [][NextSkip]_vars

(***************************************************************************)
(* Claims about DoubleRatchet                                              *)
(***************************************************************************)
\* the message numbers for which ratchet r has handed out a receive key
Consumed(r) == {g.num : g \in got[r]}

\* C3: two DoubleRatchet objects built from the same shared secret, with no
\* DH ratchet step taken: the key get_next_send_key returns for message
\* number n on one equals the key get_next_recv_key(n) returns on the other,
\* the numbers having been presented without a gap.
C3_SendKeyEqualsRecvKey ==
    TotalSteps = 0 =>
        \A a \in Ratchets, b \in Ratchets :
            (a # b /\ Consumed(b) = 0..(ratchet[b].recv_message_num - 1)) =>
                \A i \in 1..Len(sent[a]) : \A g \in got[b] :
                    g.num = sent[a][i].num => g.key = sent[a][i].key

\* C5: a step that presents an already consumed message number to
\* get_next_recv_key is refused and changes neither the receive counter, the
\* receive chain key nor the saved keys; and a key that is handed out was
\* never handed out before.
C5_ReplayStep ==
    (last' # last /\ last'.op = "recv") =>
        /\ last'.n \in Consumed(last'.r) =>
            /\ ~last'.ok
            /\ ratchet' = ratchet
            /\ got' = got
        /\ last'.ok => last'.key \notin {g.key : g \in got[last'.r]}

C5_ReplayRejected == [][C5_ReplayStep]_vars

\* C5 witness: a replayed number was refused, once after an in-order receive
\* and once after a receive through a saved key
C5_Witness ==
    /\ last.op = "recv" /\ ~last.ok
    /\ last.n \in Consumed(last.r)
    /\ \E g \in got[last.r] : g.num < ratchet[last.r].recv_message_num - 1

\* C7: the saved-key store of a ratchet never holds more than MAX_SKIP keys
C7_SavedKeysBounded ==
    \A r \in Ratchets : Cardinality(DOMAIN ratchet[r].saved_keys) <= MAX_SKIP

\* C8: on every ratchet the message numbers handed out within one sending
\* chain are 0, 1, 2, ... in the order of the calls, whichever task called,
\* and no message key is handed out twice.
C8_SendNumbers ==
    \A r \in Ratchets : \A i \in 1..Len(sent[r]) :
        /\ sent[r][i].num = Cardinality({j \in 1..(i - 1) : sent[r][j].chain = sent[r][i].chain})
        /\ \A j \in 1..(i - 1) : sent[r][j].key # sent[r][i].key

\* C8 witness: two sends in one chain, the second numbered 1
C8_Witness ==
    \E r \in Ratchets :
        /\ Len(sent[r]) >= 2
        /\ sent[r][1].chain = sent[r][2].chain
        /\ sent[r][2].num = 1

(***************************************************************************)
(* X3DHKeyManager, RatchetKeyManager, AdvancedCryptoManager                *)
(***************************************************************************)
Managers == {"A", "B"}
Initiators == {"A"}     \* the managers that call initiate_session
Responders == {"B"}     \* the managers that serve identity infos and answer requests
Plaintexts == {"hello", "world"}
\* nacl.utils.random(SecretBox.NONCE_SIZE): the n-th nonce drawn, each one new
random(n) == "nonce" \o ToString(n) \o ";"

OneTimePrekeyCount == 5

\* the absent value (None) of an optional byte string
None == ""

sha256(data) == "SHA256(" \o data \o ")"

\* base64.b64encode(...).decode() and base64.b64decode
b64encode(bytes) == [b64 |-> bytes]
b64decode(text) == text.b64

\* hashlib.sha256(identity_pub_bytes).hexdigest()[:16]
NodeId(identity_pub_bytes) == "hex16(" \o sha256(identity_pub_bytes) \o ")"

\* X3DHKeyManager.__init__ with generated key pairs base, base + 1, ...
X3DHKeyManagerInit(base) ==
    [identity_private_key |-> base,
     signed_prekey |-> base + 1,
     signed_prekey_signature |->
         sha256(PublicKeyBytes(base + 1) \o PrivateKeyBytes(base)),
     one_time_prekeys |-> [i \in 1..OneTimePrekeyCount |-> base + 1 + i],
     one_time_prekey_publics |-> [i \in 1..OneTimePrekeyCount |-> base + 1 + i]]

\* AdvancedCryptoManager.get_identity_info
GetIdentityInfo(x) ==
    [identity_key |-> b64encode(PublicKeyBytes(x.identity_private_key)),
     signed_prekey |-> b64encode(PublicKeyBytes(x.signed_prekey)),
     one_time_prekeys |-> [i \in DOMAIN x.one_time_prekey_publics |->
                              b64encode(PublicKeyBytes(x.one_time_prekey_publics[i]))],
     signature |-> b64encode(x.signed_prekey_signature),
     node_id |-> NodeId(PublicKeyBytes(x.identity_private_key))]

x3dh_hkdf(dh_input) == hkdf(dh_input, "x3dh_key_derivation")

\* X3DHKeyManager.initiate_key_exchange; e is the id of the generated ephemeral key pair
InitiateKeyExchange(x, peer_identity_key, peer_signed_prekey, peer_one_time_prekey, e) ==
    LET dh1 == crypto_scalarmult(PrivateKeyBytes(e), peer_identity_key)
        dh2 == crypto_scalarmult(PrivateKeyBytes(x.identity_private_key), peer_signed_prekey)
        dh3 == IF peer_one_time_prekey # None
               THEN crypto_scalarmult(PrivateKeyBytes(e), peer_one_time_prekey)
               ELSE None
        ik_spk == crypto_scalarmult(PrivateKeyBytes(x.identity_private_key), peer_signed_prekey)
    IN [eph_pub |-> PublicKeyBytes(e),
        shared_secret |-> x3dh_hkdf(dh1 \o dh2 \o dh3 \o ik_spk)]

\* X3DHKeyManager.respond_to_key_exchange
RespondToKeyExchange(x, ephemeral_public_key, peer_identity_key, signed_prekey_private, one_time_prekey_private) ==
    LET dh1 == crypto_scalarmult(signed_prekey_private, ephemeral_public_key)
        dh2 == crypto_scalarmult(PrivateKeyBytes(x.identity_private_key), ephemeral_public_key)
        dh3 == IF one_time_prekey_private # None
               THEN crypto_scalarmult(one_time_prekey_private, ephemeral_public_key)
               ELSE None
        \* PublicKey(signed_prekey_private).encode(): the private bytes taken as a point
        ik_spk == crypto_scalarmult(PrivateKeyBytes(x.identity_private_key), signed_prekey_private)
    IN x3dh_hkdf(dh1 \o dh2 \o dh3 \o ik_spk)

\* RatchetKeyManager.__init__
RatchetKeyManagerInit(shared_secret, k1, k2) ==
    [shared_secret |-> shared_secret,
     double_ratchet |-> DoubleRatchetInit(shared_secret, k1, k2),
     send_message_num |-> 0,
     recv_message_num |-> 0]

\* RatchetKeyManager.get_next_send_key
ManagerGetNextSendKey(rm) ==
    LET s == GetNextSendKey(rm.double_ratchet) IN
    [rm |-> [rm EXCEPT !.double_ratchet = s.r,
                       !.send_message_num = rm.send_message_num + 1],
     msg_key |-> s.msg_key,
     msg_num |-> s.msg_num]

\* RatchetKeyManager.get_next_recv_key: ok = FALSE when DoubleRatchet raises
ManagerGetNextRecvKey(rm, msg_num) ==
    LET g == GetNextRecvKey(rm.double_ratchet, msg_num) IN
    IF g.ok
    THEN [ok |-> TRUE,
          rm |-> [rm EXCEPT !.double_ratchet = g.r,
                            !.recv_message_num = Max(rm.recv_message_num, msg_num + 1)],
          msg_key |-> g.msg_key]
    ELSE [ok |-> FALSE, rm |-> rm, msg_key |-> None]

\* nacl.bindings.crypto_secretbox(plaintext, nonce, key)
crypto_secretbox(plaintext, nonce, key) ==
    "SecretBox(" \o key \o "|" \o nonce \o "|" \o plaintext \o ")"

\* SecretBox(key).encrypt(plaintext, nonce): an EncryptedMessage, the bytes nonce + ciphertext
SecretBoxEncrypt(key, plaintext, nonce) == nonce \o crypto_secretbox(plaintext, nonce, key)

\* SecretBox(key).decrypt(ciphertext, nonce) with the nonce given: the whole of
\* ciphertext is opened under nonce; ok = FALSE is nacl.exceptions.CryptoError
SecretBoxDecrypt(key, ciphertext, nonce) ==
    IF \E pt \in Plaintexts : ciphertext = crypto_secretbox(pt, nonce, key)
    THEN [ok |-> TRUE,
          plaintext |-> CHOOSE pt \in Plaintexts : ciphertext = crypto_secretbox(pt, nonce, key)]
    ELSE [ok |-> FALSE, plaintext |-> None]

\* AdvancedCryptoManager.encrypt_message on an existing session: the new
\* RatchetKeyManager and the returned dict (its advisory timestamp left out)
EncryptMessage(rm, plaintext, nonce) ==
    LET s == ManagerGetNextSendKey(rm) IN
    [rm |-> s.rm,
     encrypted_msg |-> [ciphertext |-> b64encode(SecretBoxEncrypt(s.msg_key, plaintext, nonce)),
                        msg_num |-> s.msg_num,
                        nonce |-> b64encode(nonce)]]

\* AdvancedCryptoManager.decrypt_message on an existing session: error is
\* "" (the plaintext is returned), "ValueError" (get_next_recv_key raised) or
\* "CryptoError" (box.decrypt raised); rm is the RatchetKeyManager afterwards
DecryptMessage(rm, encrypted_msg) ==
    LET ciphertext == b64decode(encrypted_msg.ciphertext)
        nonce == b64decode(encrypted_msg.nonce)
        g == ManagerGetNextRecvKey(rm, encrypted_msg.msg_num)
        d == SecretBoxDecrypt(g.msg_key, ciphertext, nonce)
    IN IF ~g.ok THEN [error |-> "ValueError", rm |-> rm, plaintext |-> None]
       ELSE IF ~d.ok THEN [error |-> "CryptoError", rm |-> g.rm, plaintext |-> None]
       ELSE [error |-> "", rm |-> g.rm, plaintext |-> d.plaintext]

(***************************************************************************)
(* Spec: two AdvancedCryptoManager objects A and B.  B serves its identity  *)
(* info and answers session requests; A starts sessions from served infos  *)
(* (as served, or with the signature replaced); both encrypt, and decrypt   *)
(* what the network delivers: any message in flight, in any order, any      *)
(* number of times, as sent or with the ciphertext replaced.                *)
(***************************************************************************)
\* the key pairs X3DHKeyManager.__init__ generates: identity, signed prekey, one-time prekeys
KeysPerManager == 2 + OneTimePrekeyCount

FirstKey(m) == IF m = "A" THEN 0 ELSE KeysPerManager

\* f"session_{self.session_counter}"
SessionId(n) == "session_" \o ToString(n)

SessionIds == {SessionId(n) : n \in 0..MaxSessions}

InitRatchetIdle ==
    /\ ratchet = << >>
    /\ sent = << >>
    /\ got = << >>
    /\ chains = << >>
    /\ last = NoOp

Init ==
    /\ x3dh = [m \in Managers |-> X3DHKeyManagerInit(FirstKey(m))]
    /\ key_counter = 2 * KeysPerManager
    /\ ratchet_managers = [m \in Managers |-> << >>]
    /\ session_counter = [m \in Managers |-> 0]
    /\ bundles = << >>
    /\ requests = {}
    /\ wire = {}
    /\ peer = {}
    /\ delivered = {}
    /\ plaintexts = {}
    /\ opk_used = << >>
    /\ res = NoRes
    /\ InitRatchetIdle
    /\ IdleNet

\* a peer asks manager m for its identity info
ServeIdentityInfo(m) ==
    /\ Len(bundles) < MaxBundles
    /\ bundles' = Append(bundles, [owner |-> m, info |-> GetIdentityInfo(x3dh[m])])
    /\ res' = [NoRes EXCEPT !.op = "get_identity_info", !.m = m]
    /\ UNCHANGED <<x3dh, key_counter, ratchet_managers, session_counter, requests, wire, peer,
                   delivered, plaintexts, opk_used>>
    /\ UNCHANGED notSession

\* what the network can make of a served identity info
Forge(info, forged) ==
    IF forged THEN [info EXCEPT !.signature = b64encode("forged")] ELSE info

\* AdvancedCryptoManager.initiate_session(peer_identity_info) by manager m, and
\* the session request that carries its result to the owner of the info
InitiateSession(m, b, forged) ==
    /\ bundles[b].owner # m
    /\ session_counter[m] < MaxSessions
    /\ LET peer_identity_info == Forge(bundles[b].info, forged)
           peer_identity_key == b64decode(peer_identity_info.identity_key)
           peer_signed_prekey == b64decode(peer_identity_info.signed_prekey)
           peer_one_time_prekey ==
               IF Len(peer_identity_info.one_time_prekeys) > 0
               THEN b64decode(peer_identity_info.one_time_prekeys[1])
               ELSE None
           kx == InitiateKeyExchange(x3dh[m], peer_identity_key, peer_signed_prekey,
                                     peer_one_time_prekey, key_counter)
           ratchet_manager == RatchetKeyManagerInit(kx.shared_secret,
                                                    key_counter + 1, key_counter + 2)
           session_id == SessionId(session_counter[m])
       IN /\ ratchet_managers' = [ratchet_managers EXCEPT ![m] = (session_id :> ratchet_manager) @@ @]
          /\ session_counter' = [session_counter EXCEPT ![m] = @ + 1]
          /\ key_counter' = key_counter + 3
          /\ requests' = requests \cup
                {[from |-> m, sid |-> session_id, to |-> bundles[b].owner,
                  eph_pub |-> b64encode(kx.eph_pub),
                  identity_info |-> GetIdentityInfo(x3dh[m]),
                  bundle |-> peer_identity_info]}
          /\ res' = [NoRes EXCEPT !.op = "initiate_session", !.m = m, !.sid = session_id,
                                  !.arg = peer_identity_info]
    /\ UNCHANGED <<x3dh, bundles, wire, peer, delivered, plaintexts, opk_used>>
    /\ UNCHANGED notSession

\* AdvancedCryptoManager.respond_to_session_request by manager m on request q
RespondToSessionRequest(m, q) ==
    /\ q.to = m
    /\ session_counter[m] < MaxSessions
    /\ LET eph_pub == b64decode(q.eph_pub)
           peer_identity_key == b64decode(q.identity_info.identity_key)
           signed_prekey_private == PrivateKeyBytes(x3dh[m].signed_prekey)
           one_time_prekey_private ==
               IF Len(x3dh[m].one_time_prekeys) > 0
               THEN PrivateKeyBytes(x3dh[m].one_time_prekeys[1])
               ELSE None
           shared_secret == RespondToKeyExchange(x3dh[m], eph_pub, peer_identity_key,
                                                 signed_prekey_private, one_time_prekey_private)
           ratchet_manager == RatchetKeyManagerInit(shared_secret, key_counter, key_counter + 1)
           session_id == SessionId(session_counter[m])
       IN /\ ratchet_managers' = [ratchet_managers EXCEPT ![m] = (session_id :> ratchet_manager) @@ @]
          /\ session_counter' = [session_counter EXCEPT ![m] = @ + 1]
          /\ key_counter' = key_counter + 2
          /\ peer' = peer \cup {[resp |-> <<m, session_id>>, init |-> <<q.from, q.sid>>,
                                 bundle |-> q.bundle]}
          /\ opk_used' = IF one_time_prekey_private # None
                         THEN Append(opk_used, [m |-> m, opk |-> x3dh[m].one_time_prekeys[1]])
                         ELSE opk_used
          /\ res' = [NoRes EXCEPT !.op = "respond_to_session_request", !.m = m,
                                  !.sid = session_id, !.arg = q]
    /\ UNCHANGED <<x3dh, bundles, requests, wire, delivered, plaintexts>>
    /\ UNCHANGED notSession

\* one session is the answer to the other
Linked(a, b) == \E l \in peer : (l.resp = a /\ l.init = b) \/ (l.resp = b /\ l.init = a)

\* AdvancedCryptoManager.encrypt_message(session_id, plaintext) by manager m; the
\* returned dict goes on the wire
SendMessage(m, session_id, plaintext, nonce) ==
    /\ Cardinality(wire) < MaxWire
    /\ IF session_id \notin DOMAIN ratchet_managers[m]
       THEN /\ res' = [NoRes EXCEPT !.op = "encrypt_message", !.m = m, !.sid = session_id,
                                    !.ok = FALSE, !.error = "ValueError"]
            /\ UNCHANGED <<ratchet_managers, wire>>
       ELSE LET e == EncryptMessage(ratchet_managers[m][session_id], plaintext, nonce) IN
            /\ ratchet_managers' = [ratchet_managers EXCEPT ![m][session_id] = e.rm]
            /\ wire' = wire \cup {[from |-> <<m, session_id>>, msg |-> e.encrypted_msg,
                                   plaintext |-> plaintext, genuine |-> TRUE]}
            /\ res' = [NoRes EXCEPT !.op = "encrypt_message", !.m = m, !.sid = session_id,
                                    !.arg = e.encrypted_msg,
                                    !.before = ratchet_managers[m][session_id]]
    /\ UNCHANGED <<x3dh, key_counter, session_counter, bundles, requests, peer, delivered,
                   plaintexts, opk_used>>
    /\ UNCHANGED notSession

\* what the network can make of a message in flight
Tamper(w, tampered) ==
    IF tampered
    THEN [w EXCEPT !.msg.ciphertext = b64encode("tampered"), !.genuine = FALSE]
    ELSE w

\* AdvancedCryptoManager.decrypt_message(session_id, encrypted_msg) by manager m
\* on a message in flight from the session linked to session_id
ReceiveMessage(m, session_id, w, tampered) ==
    /\ session_id \in DOMAIN ratchet_managers[m] => Linked(<<m, session_id>>, w.from)
    /\ IF session_id \notin DOMAIN ratchet_managers[m]
       THEN /\ res' = [NoRes EXCEPT !.op = "decrypt_message", !.m = m, !.sid = session_id,
                                    !.ok = FALSE, !.error = "ValueError"]
            /\ UNCHANGED <<ratchet_managers, delivered, plaintexts>>
       ELSE LET x == Tamper(w, tampered)
                d == DecryptMessage(ratchet_managers[m][session_id], x.msg)
            IN /\ ratchet_managers' = [ratchet_managers EXCEPT ![m][session_id] = d.rm]
               /\ delivered' = delivered \cup {[to |-> <<m, session_id>>, msg_num |-> x.msg.msg_num]}
               /\ plaintexts' = IF d.error = ""
                                THEN plaintexts \cup {[to |-> <<m, session_id>>,
                                                       msg_num |-> x.msg.msg_num,
                                                       plaintext |-> d.plaintext]}
                                ELSE plaintexts
               /\ res' = [op |-> "decrypt_message", m |-> m, sid |-> session_id,
                          ok |-> d.error = "", error |-> d.error, plaintext |-> d.plaintext,
                          arg |-> x, before |-> ratchet_managers[m][session_id],
                          first |-> [to |-> <<m, session_id>>, msg_num |-> x.msg.msg_num]
                                       \notin delivered]
    /\ UNCHANGED <<x3dh, key_counter, session_counter, bundles, requests, wire, peer, opk_used>>
    /\ UNCHANGED notSession

Next ==
    \/ \E m \in Responders : ServeIdentityInfo(m)
    \/ \E m \in Initiators, b \in DOMAIN bundles, forged \in BOOLEAN : InitiateSession(m, b, forged)
    \/ \E m \in Responders, q \in requests : RespondToSessionRequest(m, q)
    \/ \E m \in Managers, session_id \in SessionIds, plaintext \in Plaintexts :
          SendMessage(m, session_id, plaintext, random(Cardinality(wire) + 1))
    \/ \E m \in Managers, session_id \in SessionIds, w \in wire, tampered \in BOOLEAN :
          ReceiveMessage(m, session_id, w, tampered)

Spec == Init /\ [][Next]_vars

(***************************************************************************)
(* Claims about sessions, checked under Spec.                              *)
(***************************************************************************)
\* the identity info is one its owner served, untouched
Served(info) == \E b \in DOMAIN bundles : bundles[b].info = info

\* the session is one end of a key exchange run on a served identity info
Honest(a) == \E l \in peer : (l.resp = a \/ l.init = a) /\ Served(l.bundle)

\* the signature is the one the holder of the bundle's identity key makes over
\* the bundle's signed prekey
ValidSignature(info) ==
    \E i \in KeyIds :
        /\ b64decode(info.identity_key) = PublicKeyBytes(i)
        /\ b64decode(info.signature) =
               sha256(b64decode(info.signed_prekey) \o PrivateKeyBytes(i))

\* the last operation was decrypt_message on an existing session
Decrypted == res.op = "decrypt_message" /\ res.sid \in DOMAIN ratchet_managers[res.m]

\* C1: when the initiator runs the key exchange on the responder's served
\* bundle and the responder answers with the private keys of that bundle, the
\* two shared secrets are equal.
C1_SharedSecretsEqual ==
    \A l \in peer :
        Served(l.bundle) =>
            ratchet_managers[l.init[1]][l.init[2]].shared_secret =
                ratchet_managers[l.resp[1]][l.resp[2]].shared_secret

\* C2: in an established session, a message encrypted by one side and
\* delivered as sent, in the order of sending, is returned unchanged by the
\* other side's decrypt_message.
C2_RoundTrip ==
    ( /\ Decrypted
      /\ Honest(<<res.m, res.sid>>)
      /\ res.arg.genuine
      /\ res.first
      /\ res.arg.msg.msg_num = res.before.recv_message_num )
    => (res.ok /\ res.plaintext = res.arg.plaintext)

\* C4: whatever the order of delivery, a message delivered as sent for the
\* first time and at most MAX_SKIP away from the receive counter decrypts,
\* without failure, to the sender's plaintext; and the receiver holds one
\* plaintext per message number, each the plaintext of a message sent to it.
C4_AnyOrderDecrypts ==
    /\ ( /\ Decrypted
         /\ Honest(<<res.m, res.sid>>)
         /\ res.arg.genuine
         /\ res.first
         /\ res.arg.msg.msg_num - res.before.recv_message_num <= MAX_SKIP )
       => (res.error = "" /\ res.plaintext = res.arg.plaintext)
    /\ \A p \in plaintexts :
          /\ \E w \in wire : /\ Linked(p.to, w.from)
                             /\ w.msg.msg_num = p.msg_num
                             /\ w.plaintext = p.plaintext
          /\ \A q \in plaintexts : (q.to = p.to /\ q.msg_num = p.msg_num) => q = p

\* C6: when decrypt_message fails authentication on a message whose
\* ciphertext was replaced, the receive chain key, the receive counter and the
\* saved keys of the session are as they were before the call.
C6_AuthFailureKeepsState ==
    (Decrypted /\ ~res.arg.genuine /\ res.error = "CryptoError")
    => LET now == ratchet_managers[res.m][res.sid] IN
       /\ now.double_ratchet.recv_chain_key = res.before.double_ratchet.recv_chain_key
       /\ now.double_ratchet.recv_message_num = res.before.double_ratchet.recv_message_num
       /\ now.double_ratchet.saved_keys = res.before.double_ratchet.saved_keys
       /\ now.recv_message_num = res.before.recv_message_num

\* the one-time prekeys an identity info carries
BundleOPKs(info) == {info.one_time_prekeys[i] : i \in DOMAIN info.one_time_prekeys}

\* C9: no one-time prekey is in two served identity infos, and no one-time
\* prekey is used by the responder for two sessions.
C9_OneTimePrekeyOnce ==
    /\ \A b1, b2 \in DOMAIN bundles :
          b1 # b2 => BundleOPKs(bundles[b1].info) \cap BundleOPKs(bundles[b2].info) = {}
    /\ \A i, j \in DOMAIN opk_used : i # j => opk_used[i] # opk_used[j]

\* C10: initiate_session on an identity info whose signature is not valid
\* fails and leaves no session behind.
C10_BadBundleRejected ==
    (res.op = "initiate_session" /\ ~ValidSignature(res.arg))
    => (~res.ok /\ res.sid \notin DOMAIN ratchet_managers[res.m])

\* C11: a responder that is given the same session request (same initiator
\* identity key and ephemeral key) again creates no second session for it.
C11_DuplicateInitRefused ==
    \A l1, l2 \in peer : l1.init = l2.init => l1.resp = l2.resp

(***************************************************************************)
(* SpecServer: SecureNodeServer.handle_client, one coroutine per accepted  *)
(* connection.  What the peer puts on a connection is an input: a frame is *)
(* described by how far SecureProtocol.read_secure_message gets with it.   *)
(***************************************************************************)
Conns == {1, 2}

\* the value None, and a value that is not None
PyNone == [none |-> TRUE, value |-> ""]
Some(v) == [none |-> FALSE, value |-> v]

\* a frame on the connection: complete (both readexactly calls return; FALSE is
\* end of stream), json (deobfuscate and json.loads succeed), authentic
\* (decrypt_message returns), text (the plaintext)
Texts == {"", "hi"}
Frames == [complete : BOOLEAN, json : BOOLEAN, authentic : BOOLEAN, text : Texts]
NoFrame == [complete |-> TRUE, json |-> TRUE, authentic |-> TRUE, text |-> ""]

\* SecureProtocol.read_secure_message on the next frame of the connection
ReadSecureMessage(frame) ==
    IF ~frame.complete THEN PyNone       \* IncompleteReadError, ConnectionResetError
    ELSE IF ~frame.json THEN PyNone      \* JSONDecodeError (or any other exception)
    ELSE IF ~frame.authentic THEN PyNone \* decrypt_message raised: except Exception
    ELSE Some(frame.text)

\* the finally block of handle_client: the session of this connection is
\* deleted and the writer is closed
Cleanup(c) == {a \in active_sessions : a.conn # c}

InitServer ==
    /\ handlers = [c \in Conns |-> [pc |-> "session_request", session_id |-> "", reads |-> 0,
                                   auth_fails |-> 0, frame |-> NoFrame, message |-> PyNone,
                                   replies |-> 0]]
    /\ active_sessions = {}
    /\ established = 0
    /\ IdleObf
    /\ IdleStream
    /\ IdleSend
    /\ IdleDHT
    /\ IdleRoute
    /\ IdleTwin
    /\ IdleChan
    /\ IdleBcast
    /\ IdleReplay
    /\ key_counter = 0
    /\ InitRatchetIdle
    /\ IdleSession

\* handle_client up to the first read: handle_secure_session_request returns a
\* session id (ok) or None
HandleSessionRequest(c, ok) ==
    /\ handlers[c].pc = "session_request"
    /\ IF ok
       THEN /\ handlers' = [handlers EXCEPT ![c].pc = "read",
                                            ![c].session_id = SessionId(established)]
            /\ active_sessions' = active_sessions \cup
                                     {[session_id |-> SessionId(established), conn |-> c]}
            /\ established' = established + 1
       ELSE /\ handlers' = [handlers EXCEPT ![c].pc = "closed"]
            /\ active_sessions' = Cleanup(c)
            /\ UNCHANGED established
    /\ UNCHANGED notServer

\* one read_secure_message of the loop: None breaks the loop and runs the
\* finally block, anything else goes to the handler callback
ReadStep(c, frame) ==
    /\ handlers[c].pc = "read"
    /\ handlers[c].reads < MaxReads
    /\ LET message == ReadSecureMessage(frame)
           failed == frame.complete /\ frame.json /\ ~frame.authentic
       IN /\ handlers' = [handlers EXCEPT
                 ![c].pc = IF message = PyNone THEN "closed" ELSE "handle",
                 ![c].reads = @ + 1,
                 ![c].auth_fails = IF failed THEN @ + 1 ELSE 0,
                 ![c].frame = frame,
                 ![c].message = message]
          /\ active_sessions' = IF message = PyNone THEN Cleanup(c) ELSE active_sessions
    /\ UNCHANGED established
    /\ UNCHANGED notServer

\* handler_callback and the reply: a response that is not empty is sent with
\* send_secure_message; an exception (sent = FALSE) ends the coroutine
HandleStep(c, response, sent_ok) ==
    /\ handlers[c].pc = "handle"
    /\ IF response # "" /\ ~sent_ok
       THEN /\ handlers' = [handlers EXCEPT ![c].pc = "closed"]
            /\ active_sessions' = Cleanup(c)
       ELSE /\ handlers' = [handlers EXCEPT ![c].pc = "read",
                                            ![c].replies = IF response # "" THEN 1 ELSE @]
            /\ UNCHANGED active_sessions
    /\ UNCHANGED established
    /\ UNCHANGED notServer

NextServer ==
    \/ \E c \in Conns, ok \in BOOLEAN : HandleSessionRequest(c, ok)
    \/ \E c \in Conns, frame \in Frames : ReadStep(c, frame)
    \/ \E c \in Conns, response \in {"", "ack"}, sent_ok \in BOOLEAN : HandleStep(c, response, sent_ok)

SpecServer == InitServer /\ [][NextServer]_vars

\* C12: a decrypt failure on an established session leaves the connection
\* and its session open, unless it is the MAX_CONSECUTIVE_AUTH_FAIL-th in a
\* row; the connection closes otherwise only when the peer ends the stream.
C12_SessionStaysOpen ==
    \A c \in Conns :
        ( /\ handlers[c].session_id # ""
          /\ handlers[c].frame.complete /\ handlers[c].frame.json
          /\ ~handlers[c].frame.authentic )
        => \/ handlers[c].auth_fails >= MAX_CONSECUTIVE_AUTH_FAIL
           \/ /\ handlers[c].pc # "closed"
              /\ \E a \in active_sessions : a.conn = c

(***************************************************************************)
(* ObfuscatedProtocol (tls_protocol.py).  Here a byte string is a sequence *)
(* of integers 0..255.                                                     *)
(***************************************************************************)
\* struct.pack('>H' / '>I' / '>Q', n) and struct.unpack('>I', b)[0]
pack_H(n) == <<(n \div 256) % 256, n % 256>>
pack_I(n) == <<(n \div 16777216) % 256, (n \div 65536) % 256, (n \div 256) % 256, n % 256>>
pack_Q(n) == <<0, 0, 0, 0>> \o pack_I(n)
unpack_I(b) == b[1] * 16777216 + b[2] * 65536 + b[3] * 256 + b[4]

\* data[lo:hi] and data[lo:] with Python's 0-based, clipped bounds
Slice(data, lo, hi) == SubSeq(data, lo + 1, Min(hi, Len(data)))
SliceFrom(data, lo) == SubSeq(data, lo + 1, Len(data))

\* n bytes, each of value b
Repeat(b, n) == [i \in 1..n |-> b]

\* str(n).encode() for n >= 0
RECURSIVE str(_)
str(n) == IF n < 10 THEN <<48 + n>> ELSE str(n \div 10) \o <<48 + (n % 10)>>

\* data.find(pattern): the 0-based index of the first occurrence, or -1
find(data, pattern) ==
    LET hits == {i \in 0..(Len(data) - Len(pattern)) :
                    SubSeq(data, i + 1, i + Len(pattern)) = pattern}
    IN IF hits = {} THEN -1 ELSE CHOOSE i \in hits : \A j \in hits : i <= j

\* ObfuscatedProtocol._websocket_obfuscation
websocket_obfuscation(data) ==
    LET payload_len == Len(data) IN
    <<129>> \o
    (IF payload_len <= 125 THEN <<payload_len>>
     ELSE IF payload_len <= 65535 THEN <<126>> \o pack_H(payload_len)
     ELSE <<127>> \o pack_Q(payload_len)) \o
    data

\* b"\r\n".join(headers) up to the content length: "POST /api/messages HTTP/1.1",
\* "Host: example.com", "User-Agent: ...", "Content-Type: application/json",
\* "Content-Length: "
http_headers_before ==
    <<80, 79, 83, 84, 32, 47, 97, 112, 105, 47, 109, 101, 115, 115, 97, 103,
      101, 115, 32, 72, 84, 84, 80, 47, 49, 46, 49, 13, 10, 72, 111, 115,
      116, 58, 32, 101, 120, 97, 109, 112, 108, 101, 46, 99, 111, 109, 13,
      10, 85, 115, 101, 114, 45, 65, 103, 101, 110, 116, 58, 32, 77, 111,
      122, 105, 108, 108, 97, 47, 53, 46, 48, 32, 40, 99, 111, 109, 112, 97,
      116, 105, 98, 108, 101, 59, 32, 80, 50, 80, 45, 67, 108, 105, 101, 110,
      116, 41, 13, 10, 67, 111, 110, 116, 101, 110, 116, 45, 84, 121, 112,
      101, 58, 32, 97, 112, 112, 108, 105, 99, 97, 116, 105, 111, 110, 47,
      106, 115, 111, 110, 13, 10, 67, 111, 110, 116, 101, 110, 116, 45, 76,
      101, 110, 103, 116, 104, 58, 32>>

\* ... and after it: "\r\n", "Connection: keep-alive", "", ""
http_headers_after ==
    <<13, 10, 67, 111, 110, 110, 101, 99, 116, 105, 111, 110, 58, 32, 107,
      101, 101, 112, 45, 97, 108, 105, 118, 101, 13, 10, 13, 10>>

\* ObfuscatedProtocol._http_padding_obfuscation; padding is the random padding
http_padding_obfuscation(data, padding) ==
    http_headers_before \o str(Len(data)) \o http_headers_after \o data \o padding

\* ObfuscatedProtocol._random_padding_obfuscation; prefix and suffix are the
\* random bytes
random_padding_obfuscation(data, prefix, suffix) ==
    LET result == prefix \o data \o suffix IN
    pack_I(Len(result)) \o result

Methods == {"websocket", "http_padding", "random_padding"}

\* ObfuscatedProtocol.obfuscate; r holds the random choices
obfuscate(data, method, r) ==
    IF method = "websocket" THEN websocket_obfuscation(data)
    ELSE IF method = "http_padding" THEN http_padding_obfuscation(data, r.padding)
    ELSE random_padding_obfuscation(data, r.prefix, r.suffix)

\* ObfuscatedProtocol.deobfuscate; ok = FALSE is ValueError
deobfuscate(data, method) ==
    IF method = "random_padding"
    THEN IF Len(data) < 4 THEN [ok |-> FALSE, data |-> << >>]
         ELSE LET total_len == unpack_I(Slice(data, 0, 4))
              IN [ok |-> TRUE, data |-> Slice(data, 4, 4 + total_len)]
    ELSE IF method = "websocket"
    THEN IF Len(data) < 2 THEN [ok |-> TRUE, data |-> data]
         ELSE LET payload_len == data[2] % 128
                  offset == IF payload_len = 126 THEN 4
                            ELSE IF payload_len = 127 THEN 10 ELSE 2
              IN [ok |-> TRUE, data |-> SliceFrom(data, offset)]
    ELSE IF method = "http_padding"
    THEN LET header_end == find(data, <<13, 10, 13, 10>>)
         IN IF header_end # -1 THEN [ok |-> TRUE, data |-> SliceFrom(data, header_end + 4)]
            ELSE [ok |-> TRUE, data |-> data]
    ELSE [ok |-> TRUE, data |-> data]

(***************************************************************************)
(* SpecObfuscate: obfuscate a payload with a method and random padding,    *)
(* then deobfuscate the result with the same method                        *)
(* (TestSecureProtocol.test_obfuscation).                                  *)
(***************************************************************************)
\* payloads: every byte string over PayloadBytes of at most MaxPayloadLen bytes,
\* and one that needs the two-byte WebSocket length (126 bytes)
PayloadBytes == {13, 10, 123}
Payloads ==
    UNION {[1..n -> PayloadBytes] : n \in 0..MaxPayloadLen} \cup {Repeat(97, 126)}

\* random.randint(10, 100) and random.randint(5, 50), the smallest values and
\* MaxExtraPad more; random.randint(0, 255) for the padding bytes
HttpPadLens == 10..(10 + MaxExtraPad)
RandomPadLens == 5..(5 + MaxExtraPad)
PadBytes == {0, 255}

\* the random choices of one obfuscate call
Randoms ==
    [padding : {Repeat(b, n) : b \in PadBytes, n \in HttpPadLens},
     prefix : {Repeat(b, n) : b \in PadBytes, n \in RandomPadLens},
     suffix : {Repeat(b, n) : b \in PadBytes, n \in RandomPadLens}]

InitObfuscate ==
    /\ obf \in [phase : {"input"}, x : Payloads, method : Methods,
                obfuscated : {<< >>}, ok : {TRUE}, deobfuscated : {<< >>}]
    /\ key_counter = 0
    /\ InitRatchetIdle
    /\ IdleSession
    /\ IdleServer
    /\ IdleStream
    /\ IdleSend
    /\ IdleDHT
    /\ IdleRoute
    /\ IdleTwin
    /\ IdleChan
    /\ IdleBcast
    /\ IdleReplay

\* obfuscated = obfuscator.obfuscate(original_data, method)
Obfuscate(r) ==
    /\ obf.phase = "input"
    /\ obf' = [obf EXCEPT !.phase = "obfuscated",
                          !.obfuscated = obfuscate(obf.x, obf.method, r)]
    /\ UNCHANGED notObf

\* deobfuscated = obfuscator.deobfuscate(obfuscated, method)
Deobfuscate ==
    /\ obf.phase = "obfuscated"
    /\ LET d == deobfuscate(obf.obfuscated, obf.method)
       IN obf' = [obf EXCEPT !.phase = "deobfuscated", !.ok = d.ok, !.deobfuscated = d.data]
    /\ UNCHANGED notObf

NextObfuscate ==
    \/ \E r \in Randoms : Obfuscate(r)
    \/ Deobfuscate

SpecObfuscate == InitObfuscate /\ [][NextObfuscate]_vars

\* C13: for every method and every payload, deobfuscate(obfuscate(x, m), m)
\* is x, whatever padding obfuscate chose.
C13_ObfuscationRoundTrip ==
    obf.phase = "deobfuscated" => (obf.ok /\ obf.deobfuscated = obf.x)

(***************************************************************************)
(* P2PProtocol (protocol.py): length-prefixed JSON over one direction of a *)
(* connection.  The transport delivers the written bytes in order, split   *)
(* or coalesced in any way.                                                *)
(***************************************************************************)
\* the dicts passed to send_json: a dict is the byte string of its members
Docs == {<<49>>, <<50, 44>>}

\* json.dumps(data).encode('utf-8')
json_dumps(data) == <<123>> \o data \o <<125>>

\* read_json's None, and json.loads(body.decode('utf-8')): none = TRUE is
\* JSONDecodeError
NoJson == [none |-> TRUE, value |-> << >>]
json_loads(body) ==
    IF /\ Len(body) >= 2
       /\ body[1] = 123
       /\ body[Len(body)] = 125
       /\ SubSeq(body, 2, Len(body) - 1) \in Docs
    THEN [none |-> FALSE, value |-> SubSeq(body, 2, Len(body) - 1)]
    ELSE NoJson

\* a send_json that declares one byte too many
send_json_bytes_long(data) ==
    LET message == json_dumps(data) IN pack_I(Len(message) + 1) \o message

\* the bytes send_json writes: writer.write(struct.pack('>I', len(message)));
\* writer.write(message)
send_json_bytes(data) ==
    LET message == json_dumps(data) IN pack_I(Len(message)) \o message

InitStream ==
    /\ written = << >>
    /\ transit = << >>
    /\ buffer = << >>
    /\ writer_closed = FALSE
    /\ reader = [pc |-> "header", length |-> 0, last |-> ""]
    /\ results = << >>
    /\ key_counter = 0
    /\ InitRatchetIdle
    /\ IdleSession
    /\ IdleServer
    /\ IdleObf
    /\ IdleSend
    /\ IdleDHT
    /\ IdleRoute
    /\ IdleTwin
    /\ IdleChan
    /\ IdleBcast
    /\ IdleReplay

\* P2PProtocol.send_json(writer, data); the two writes are not separated by an
\* await, so the frames of concurrent callers do not interleave
SendJson(data) ==
    /\ ~writer_closed
    /\ Len(written) < MaxDocs
    /\ written' = Append(written, data)
    /\ transit' = transit \o send_json_bytes(data)
    /\ UNCHANGED <<buffer, writer_closed, reader, results>>
    /\ UNCHANGED notStream

\* the transport hands the next n bytes to the StreamReader
Arrive(n) ==
    /\ n \in 1..Len(transit)
    /\ buffer' = buffer \o SubSeq(transit, 1, n)
    /\ transit' = SubSeq(transit, n + 1, Len(transit))
    /\ UNCHANGED <<written, writer_closed, reader, results>>
    /\ UNCHANGED notStream

\* writer.close()
CloseWriter ==
    /\ ~writer_closed
    /\ writer_closed' = TRUE
    /\ UNCHANGED <<written, transit, buffer, reader, results>>
    /\ UNCHANGED notStream

\* end of stream has reached the reader
AtEof == writer_closed /\ transit = << >>

\* read_json: header = await reader.readexactly(4); length = unpack; at end of
\* stream IncompleteReadError makes read_json return None, and the loop of the
\* caller ends
ReadHeader ==
    /\ reader.pc = "header"
    /\ IF Len(buffer) >= 4
       THEN /\ reader' = [reader EXCEPT !.pc = "body",
                                        !.length = unpack_I(SubSeq(buffer, 1, 4))]
            /\ buffer' = SubSeq(buffer, 5, Len(buffer))
            /\ UNCHANGED results
       ELSE /\ AtEof
            /\ reader' = [reader EXCEPT !.pc = "done", !.last = "eof"]
            /\ buffer' = << >>
            /\ results' = Append(results, NoJson)
    /\ UNCHANGED <<written, transit, writer_closed>>
    /\ UNCHANGED notStream

\* read_json: body = await reader.readexactly(length); return json.loads(...);
\* None (JSONDecodeError, IncompleteReadError) ends the loop of the caller
ReadBody ==
    /\ reader.pc = "body"
    /\ IF Len(buffer) >= reader.length
       THEN LET data == json_loads(SubSeq(buffer, 1, reader.length))
            IN /\ reader' = [reader EXCEPT !.pc = IF data.none THEN "done" ELSE "header",
                                           !.last = "frame"]
               /\ buffer' = SubSeq(buffer, reader.length + 1, Len(buffer))
               /\ results' = Append(results, data)
       ELSE /\ AtEof
            /\ reader' = [reader EXCEPT !.pc = "done", !.last = "eof"]
            /\ buffer' = << >>
            /\ results' = Append(results, NoJson)
    /\ UNCHANGED <<written, transit, writer_closed>>
    /\ UNCHANGED notStream

NextJson ==
    \/ \E data \in Docs : SendJson(data)
    \/ \E n \in 1..(MaxDocs * 9) : Arrive(n)
    \/ CloseWriter
    \/ ReadHeader
    \/ ReadBody

SpecJson == InitStream /\ [][NextJson]_vars

PeerFrames ==
    {pack_I(0), pack_I(MAX_FRAME + 1)} \cup {send_json_bytes(data) : data \in Docs}

WriteFrame(frame) ==
    /\ ~writer_closed
    /\ Len(written) < MaxFrames
    /\ written' = Append(written, frame)
    /\ transit' = transit \o frame
    /\ UNCHANGED <<buffer, writer_closed, reader, results>>
    /\ UNCHANGED notStream

NextFrame ==
    \/ \E frame \in PeerFrames : WriteFrame(frame)
    \/ \E n \in 1..(MaxFrames * 9) : Arrive(n)
    \/ CloseWriter
    \/ ReadHeader
    \/ ReadBody

SpecFrame == InitStream /\ [][NextFrame]_vars

\* C15: after a frame of declared length 0 has been received, the reader goes
\* on to the next frame: the frame is neither an error nor the end of the
\* connection.
C15_EmptyFrameAccepted ==
    (reader.last = "frame" /\ reader.length = 0) => reader.pc # "done"

\* C16: the reader never waits for the payload of a frame whose declared
\* length exceeds MAX_FRAME (16 MiB): such a header is rejected at once.
C16_OversizeFrameRejected ==
    reader.pc = "body" => reader.length <= MAX_FRAME

(***************************************************************************)
(* SpecSend: the tasks of a SecureNodeServer that send on one connection   *)
(* of one session (the handler's reply and broadcast_message), each        *)
(* through SecureProtocol.send_secure_message, and the transport that      *)
(* empties the write buffer of the StreamWriter.                           *)
(***************************************************************************)
\* asyncio's default write-buffer limits: writing is paused above 64 KiB and
\* resumed at a quarter of that
HIGH_WATER == 64 * 1024
LOW_WATER == HIGH_WATER \div 4

\* bytes in the write buffer
BufferSize(frames) == Len(frames) * FrameBytes

InitSend ==
    /\ senders = [t \in Tasks |-> [pc |-> "idle", msg_num |-> 0]]
    /\ next_msg_num = 0
    /\ write_buffer = << >>
    /\ paused = FALSE
    /\ on_wire = << >>
    /\ key_counter = 0
    /\ InitRatchetIdle
    /\ IdleSession
    /\ IdleServer
    /\ IdleObf
    /\ IdleStream
    /\ IdleDHT
    /\ IdleRoute
    /\ IdleTwin
    /\ IdleChan
    /\ IdleBcast
    /\ IdleReplay

\* a send_secure_message that gives way to other tasks between encrypt_message
\* and the writes
SendSecureMessageYield(t) ==
    /\ senders[t].pc \in {"idle", "encrypted"}
    /\ IF senders[t].pc = "idle"
       THEN /\ next_msg_num < MaxSendFrames
            /\ senders' = [senders EXCEPT ![t] = [pc |-> "encrypted", msg_num |-> next_msg_num]]
            /\ next_msg_num' = next_msg_num + 1
            /\ UNCHANGED <<write_buffer, paused>>
       ELSE /\ senders' = [senders EXCEPT ![t] = [pc |-> "drain", msg_num |-> 0]]
            /\ write_buffer' = Append(write_buffer, senders[t].msg_num)
            /\ paused' = (paused \/ BufferSize(write_buffer) + FrameBytes > HIGH_WATER)
            /\ UNCHANGED next_msg_num
    /\ UNCHANGED on_wire
    /\ UNCHANGED notSend

\* send_secure_message up to its await: encrypt_message takes the next message
\* number, the message is obfuscated, header and body are written to the
\* writer; nothing in between gives way to another task, and writer.write
\* neither waits nor fails
SendSecureMessage(t) ==
    /\ senders[t].pc = "idle"
    /\ next_msg_num < MaxSendFrames
    /\ senders' = [senders EXCEPT ![t].pc = "drain"]
    /\ next_msg_num' = next_msg_num + 1
    /\ write_buffer' = Append(write_buffer, next_msg_num)
    /\ paused' = (paused \/ BufferSize(write_buffer) + FrameBytes > HIGH_WATER)
    /\ UNCHANGED on_wire
    /\ UNCHANGED notSend

\* await writer.drain(): returns once writing is not paused
Drain(t) ==
    /\ senders[t].pc = "drain"
    /\ ~paused
    /\ senders' = [senders EXCEPT ![t].pc = "idle"]
    /\ UNCHANGED <<next_msg_num, write_buffer, paused, on_wire>>
    /\ UNCHANGED notSend

\* the transport puts the oldest frame of the write buffer on the wire
Flush ==
    /\ write_buffer # << >>
    /\ on_wire' = Append(on_wire, Head(write_buffer))
    /\ write_buffer' = Tail(write_buffer)
    /\ paused' = (paused /\ BufferSize(Tail(write_buffer)) > LOW_WATER)
    /\ UNCHANGED <<senders, next_msg_num>>
    /\ UNCHANGED notSend

NextSend ==
    \/ \E t \in Tasks : SendSecureMessage(t)
    \/ \E t \in Tasks : Drain(t)
    \/ Flush

SpecSend == InitSend /\ [][NextSend]_vars

\* C17: the frames awaiting write on a connection never number more than
\* QUEUE_CAPACITY (a send on a full queue would fail rather than add a frame).
C17_WriteQueueBounded == Len(write_buffer) <= QUEUE_CAPACITY

\* increasing message numbers
Increasing(frames) == \A i \in 1..(Len(frames) - 1) : frames[i] < frames[i + 1]

\* C18: the frames of the session are put on the wire in increasing
\* message-number order, the order in which they were encrypted, whichever
\* tasks sent them; the same holds for the frames still to be written.
C18_WireOrder == Increasing(on_wire \o write_buffer)

\* both tasks have sent and wait in drain while frames are on the wire
C18_Witness ==
    /\ \A t \in Tasks : senders[t].pc = "drain"
    /\ Len(on_wire) >= 1
    /\ Len(write_buffer) >= 2

\* ---------------------------------------------------------------------------
\* Kademlia routing table (network/kademlia_dht.py)
\* ---------------------------------------------------------------------------

\* KBucket.k and KademliaDHT.k: the capacity of one bucket
K == 20
\* the number of buckets _init_buckets creates
NumBuckets == 256
\* KBucket.add_node: seconds after which a node of a full bucket may be replaced
STALE_AFTER == 900

\* node ids, as the integers int(node_id, 16) makes of them; two ids are the
\* same string exactly when they are the same integer
Ids == 0 .. (2 ^ IdBits - 1)

\* Node(node_id, ip, port): last_seen is time.time() at construction; ip and
\* port are those of the node with that id
Node(node_id) == [node_id |-> node_id, last_seen |-> clock]

\* int ^ int
RECURSIVE xor(_, _)
xor(a, b) ==
    IF a = 0 /\ b = 0 THEN 0
    ELSE (((a % 2) + (b % 2)) % 2) + 2 * xor(a \div 2, b \div 2)

\* int.bit_length()
RECURSIVE bit_length(_)
bit_length(n) == IF n = 0 THEN 0 ELSE 1 + bit_length(n \div 2)

\* KademliaDHT._distance
distance(node_id1, node_id2) == xor(node_id1, node_id2)

\* KademliaDHT._get_bucket_index, one too high
get_bucket_index_high(self_id, node_id) ==
    LET d == distance(self_id, node_id) IN
    IF d = 0 THEN 255 ELSE bit_length(d)

\* KademliaDHT._get_bucket_index
get_bucket_index(self_id, node_id) ==
    LET d == distance(self_id, node_id) IN
    IF d = 0 THEN 255 ELSE bit_length(d) - 1

\* the least element of a set of indexes, 0 if it is empty
FirstIndex(hits) == IF hits = {} THEN 0 ELSE CHOOSE i \in hits : \A j \in hits : i <= j

\* for i, n in enumerate(self.nodes): if n.node_id == node.node_id: ... break
FirstSameId(nodes, node_id) == FirstIndex({i \in 1..Len(nodes) : nodes[i].node_id = node_id})

\* for i, n in enumerate(self.nodes): if time.time() - n.last_seen > 900: ... return
FirstStale(nodes, time) == FirstIndex({i \in 1..Len(nodes) : time - nodes[i].last_seen > STALE_AFTER})

\* KBucket.add_node without the capacity test
KBucket_add_node_unbounded(nodes, node, time) ==
    IF \E i \in 1..Len(nodes) : nodes[i] = node
    THEN [nodes EXCEPT ![FirstSameId(nodes, node.node_id)] = node]
    ELSE Append(nodes, node)

\* KBucket.add_node: the nodes list after the call.  "node in self.nodes"
\* compares every field of the dataclass, last_seen included.
KBucket_add_node(nodes, node, time) ==
    IF \E i \in 1..Len(nodes) : nodes[i] = node
    THEN [nodes EXCEPT ![FirstSameId(nodes, node.node_id)] = node]
    ELSE IF Len(nodes) < K
    THEN Append(nodes, node)
    ELSE IF FirstStale(nodes, time) # 0
    THEN [nodes EXCEPT ![FirstStale(nodes, time)] = node]
    ELSE nodes

\* KBucket.remove_node
KBucket_remove_node(nodes, node_id) == SelectSeq(nodes, LAMBDA n : n.node_id # node_id)

\* dict.__setitem__ and del on node_cache
CachePut(cache, node) ==
    [i \in DOMAIN cache \cup {node.node_id} |-> IF i = node.node_id THEN node ELSE cache[i]]

CacheDel(cache, node_id) == [i \in DOMAIN cache \ {node_id} |-> cache[i]]

\* the peer of the farthest bucket that a node has heard of before
FirstPeer(self_id) == xor(self_id, 2 ^ (IdBits - 1))

\* how often the node heard of its first peer, once a second: never, or often
\* enough to leave one place in the bucket
Observations == {0, K - 1}

\* _init_buckets
EmptyBuckets == [b \in 0..(NumBuckets - 1) |-> << >>]

\* KademliaDHT.__init__ (add_node(self.local_node) returns at once), followed
\* by n calls of add_node(Node(FirstPeer, ...)), one a second
InitDHT ==
    /\ key_counter = 0
    /\ InitRatchetIdle
    /\ IdleSession
    /\ IdleServer
    /\ IdleObf
    /\ IdleStream
    /\ IdleSend
    /\ IdleRoute
    /\ IdleTwin
    /\ IdleChan
    /\ IdleBcast
    /\ IdleReplay
    /\ local_id \in Ids
    /\ \E n \in Observations :
        /\ buckets = [EmptyBuckets EXCEPT ![IdBits - 1] =
                        [i \in 1..n |-> [node_id |-> FirstPeer(local_id), last_seen |-> i]]]
        /\ node_cache = IF n = 0 THEN << >>
                        ELSE CachePut(<< >>, [node_id |-> FirstPeer(local_id), last_seen |-> n])
        /\ clock = n
    /\ dht_ops = 0
    /\ dht_last = [op |-> "init", node_id |-> local_id]

\* KademliaDHT.add_node(Node(node_id, ip, port))
AddNode(node_id) ==
    /\ dht_ops < MaxDhtOps
    /\ dht_ops' = dht_ops + 1
    /\ dht_last' = [op |-> "add_node", node_id |-> node_id]
    /\ IF node_id = local_id
       THEN UNCHANGED <<buckets, node_cache>>
       ELSE LET bucket_idx == get_bucket_index(local_id, node_id) IN
            /\ buckets' = IF 0 <= bucket_idx /\ bucket_idx < NumBuckets
                          THEN [buckets EXCEPT ![bucket_idx] = KBucket_add_node(@, Node(node_id), clock)]
                          ELSE buckets
            /\ node_cache' = CachePut(node_cache, Node(node_id))
    /\ UNCHANGED <<local_id, clock>>
    /\ UNCHANGED notDHT

\* KademliaDHT.remove_node(node_id)
RemoveNode(node_id) ==
    /\ dht_ops < MaxDhtOps
    /\ dht_ops' = dht_ops + 1
    /\ dht_last' = [op |-> "remove_node", node_id |-> node_id]
    /\ LET bucket_idx == get_bucket_index(local_id, node_id) IN
       buckets' = IF 0 <= bucket_idx /\ bucket_idx < NumBuckets
                  THEN [buckets EXCEPT ![bucket_idx] = KBucket_remove_node(@, node_id)]
                  ELSE buckets
    /\ node_cache' = CacheDel(node_cache, node_id)
    /\ UNCHANGED <<local_id, clock>>
    /\ UNCHANGED notDHT

\* time passes: a second, or more than the staleness period
Tick(seconds) ==
    /\ dht_ops < MaxDhtOps
    /\ dht_last.op # "tick"
    /\ clock' = clock + seconds
    /\ dht_last' = [op |-> "tick", node_id |-> local_id]
    /\ UNCHANGED <<local_id, buckets, node_cache, dht_ops>>
    /\ UNCHANGED notDHT

NextDHT ==
    \/ \E node_id \in Ids : AddNode(node_id)
    \/ \E node_id \in Ids : RemoveNode(node_id)
    \/ \E seconds \in {1, STALE_AFTER + 1} : Tick(seconds)

SpecDHT == InitDHT /\ [][NextDHT]_vars

\* the ids of the nodes a bucket holds
BucketIds(nodes) == {nodes[i].node_id : i \in 1..Len(nodes)}

\* the highest set bit of a positive integer
HighestSetBit(d) == CHOOSE i \in 0..(NumBuckets - 1) : 2 ^ i <= d /\ d < 2 ^ (i + 1)

\* KademliaDHT.add_node was called for a peer other than the local node
AddedPeer == dht_ops' = dht_ops + 1 /\ dht_last'.op = "add_node" /\ dht_last'.node_id # local_id

\* C19: when add_node is called for a peer P other than the local node L, only
\* the bucket whose index is the highest set bit of L xor P may change, every
\* record of P in the table is in that bucket, and P is in it whenever the
\* bucket had room before the call.
C19_OneBucketByHighestBit ==
    [][AddedPeer =>
        LET P == dht_last'.node_id
            idx == HighestSetBit(xor(local_id, P))
        IN
        /\ buckets' = [buckets EXCEPT ![idx] = buckets'[idx]]
        /\ \A b \in DOMAIN buckets \ {idx} : P \notin BucketIds(buckets'[b])
        /\ Len(buckets[idx]) < K => P \in BucketIds(buckets'[idx])
    ]_vars

\* a peer other than the first one has just been inserted into its bucket
C19_Witness ==
    /\ dht_last.op = "add_node"
    /\ dht_last.node_id \notin {local_id, FirstPeer(local_id)}
    /\ \E b \in DOMAIN buckets : dht_last.node_id \in BucketIds(buckets[b])

\* the number of records in the buckets lo .. hi
RECURSIVE TotalRecords(_, _)
TotalRecords(lo, hi) ==
    IF lo > hi THEN 0
    ELSE IF lo = hi THEN Len(buckets[lo])
    ELSE LET mid == (lo + hi) \div 2 IN TotalRecords(lo, mid) + TotalRecords(mid + 1, hi)

\* C20: no bucket holds more than k records, and the buckets together hold at
\* most k * 256.
C20_BucketsBounded ==
    /\ \A b \in DOMAIN buckets : Len(buckets[b]) <= K
    /\ TotalRecords(0, NumBuckets - 1) <= K * NumBuckets

\* a peer was offered to a full bucket, which refused it
C20_Witness ==
    /\ dht_last.op = "add_node"
    /\ dht_last.node_id # local_id
    /\ LET nodes == buckets[get_bucket_index(local_id, dht_last.node_id)] IN
       Len(nodes) = K /\ dht_last.node_id \notin BucketIds(nodes)

\* ---------------------------------------------------------------------------
\* Kademlia lookups (network/kademlia_dht.py)
\* ---------------------------------------------------------------------------

\* the lookup parallelism the specification names; the code queries peers[:5]
ALPHA == 3
\* find_node_async: "for peer in peers[:5]"
QUERY_LIMIT == 5
\* SpecLookup: the longest peers list handed to find_node_async
MaxPeers == 6

\* the nodes lists of the buckets lo .. hi, one after the other
RECURSIVE ExtendAll(_, _, _)
ExtendAll(bks, lo, hi) ==
    IF lo > hi THEN << >>
    ELSE IF lo = hi THEN bks[lo]
    ELSE LET mid == (lo + hi) \div 2 IN ExtendAll(bks, lo, mid) \o ExtendAll(bks, mid + 1, hi)

\* nodes.sort(key=lambda n: self._distance(target_id, n.node_id)): a stable sort.
\* The keys and the ranks are tabulated once (f @@ << >> is f as a table); here
\* and below a list is bound as a value, x \in {e}, before it is used.
SortByDistance(nodes, target_id) ==
    LET d == [i \in 1..Len(nodes) |-> distance(target_id, nodes[i].node_id)] @@ << >>
        Before(j, i) == d[j] < d[i] \/ (d[j] = d[i] /\ j < i)
        rank == [i \in 1..Len(nodes) |-> 1 + Cardinality({j \in 1..Len(nodes) : Before(j, i)})] @@ << >>
    IN [p \in 1..Len(nodes) |-> nodes[CHOOSE i \in 1..Len(nodes) : rank[i] = p]]

\* nodes[:n]
Head_n(nodes, n) == SubSeq(nodes, 1, IF Len(nodes) < n THEN Len(nodes) ELSE n)

\* KademliaDHT.find_node: only the buckets bucket_idx - 2 .. bucket_idx + 2 are read
find_node(self_id, bks, target_id) ==
    LET bucket_idx == get_bucket_index(self_id, target_id)
        lo == IF bucket_idx - 2 > 0 THEN bucket_idx - 2 ELSE 0
        hi == (IF NumBuckets < bucket_idx + 3 THEN NumBuckets ELSE bucket_idx + 3) - 1
    IN CHOOSE r \in {Head_n(SortByDistance(nodes, target_id), K) : nodes \in {ExtendAll(bks, lo, hi)}} : TRUE

\* KademliaDHT.get_closest_nodes: every bucket is read
get_closest_nodes(bks, target_id) ==
    CHOOSE r \in {Head_n(SortByDistance(nodes, target_id), K) : nodes \in {ExtendAll(bks, 0, NumBuckets - 1)}} : TRUE

\* the values of a dict keyed by node_id, in the order of first insertion, each
\* key holding the node inserted last
RECURSIVE UniqueById(_)
UniqueById(nodes) ==
    IF nodes = << >> THEN << >>
    ELSE LET node_id == nodes[1].node_id
             same == {i \in 1..Len(nodes) : nodes[i].node_id = node_id}
             last_i == CHOOSE i \in same : \A j \in same : j <= i
         IN <<nodes[last_i]>> \o UniqueById(SelectSeq(nodes, LAMBDA n : n.node_id # node_id))

\* n copies of a list, one after the other
RECURSIVE Copies(_, _)
Copies(nodes, n) == IF n = 0 THEN << >> ELSE nodes \o Copies(nodes, n - 1)

\* KademliaDHT.find_node_async with n peers: _query_node answers every query
\* with self.find_node(target_id), whatever the peer
find_node_async(self_id, bks, target_id, n) ==
    LET queried == IF n < QUERY_LIMIT THEN n ELSE QUERY_LIMIT IN
    CHOOSE r \in {[queried |-> queried, nodes |-> Head_n(SortByDistance(unique_nodes, target_id), K)] :
                    unique_nodes \in {UniqueById(all_nodes) :
                        all_nodes \in {Copies(result, queried) :
                            result \in {find_node(self_id, bks, target_id)}}}} : TRUE

\* the last operation was a lookup
LookedUp == dht_last.op \in {"find_node", "get_closest_nodes", "find_node_async"}

\* KademliaDHT.find_node(target_id), as process_request calls it
FindNode(target_id) ==
    /\ ~LookedUp
    /\ dht_last' = [op |-> "find_node", node_id |-> target_id, queried |-> 0,
                    result |-> find_node(local_id, buckets, target_id)]
    /\ UNCHANGED <<local_id, buckets, node_cache, clock, dht_ops>>
    /\ UNCHANGED notDHT

\* KademliaDHT.get_closest_nodes(target_id)
GetClosestNodes(target_id) ==
    /\ ~LookedUp
    /\ dht_last' = [op |-> "get_closest_nodes", node_id |-> target_id, queried |-> 0,
                    result |-> get_closest_nodes(buckets, target_id)]
    /\ UNCHANGED <<local_id, buckets, node_cache, clock, dht_ops>>
    /\ UNCHANGED notDHT

\* KademliaDHT.find_node_async(target_id, peers) with a list of n peers
FindNodeAsync(target_id, n) ==
    /\ ~LookedUp
    /\ LET r == find_node_async(local_id, buckets, target_id, n) IN
       dht_last' = [op |-> "find_node_async", node_id |-> target_id, queried |-> r.queried,
                    result |-> r.nodes]
    /\ UNCHANGED <<local_id, buckets, node_cache, clock, dht_ops>>
    /\ UNCHANGED notDHT

\* the table changes as in SpecDHT; a lookup is the last step of a behaviour
NextLookup ==
    \/ \E node_id \in Ids : ~LookedUp /\ AddNode(node_id)
    \/ \E node_id \in Ids : ~LookedUp /\ RemoveNode(node_id)
    \/ \E seconds \in {1, STALE_AFTER + 1} : ~LookedUp /\ Tick(seconds)
    \/ \E target_id \in Ids : FindNode(target_id)
    \/ \E target_id \in Ids : GetClosestNodes(target_id)
    \/ \E target_id \in Ids, n \in 0..MaxPeers : FindNodeAsync(target_id, n)

SpecLookup == InitDHT /\ [][NextLookup]_vars

\* C21: when the table holds fewer than k records, find_node(target) returns
\* every peer the table holds (the min(k, n) closest of n < k peers are all of
\* them).
C21_FindNodeReturnsClosest ==
    (dht_last.op = "find_node" /\ TotalRecords(0, NumBuckets - 1) < K)
    => \A b \in DOMAIN buckets : BucketIds(buckets[b]) \subseteq BucketIds(dht_last.result)

\* C22: a lookup round queries at most ALPHA peers.
C22_RoundQueriesAlpha == dht_last.op = "find_node_async" => dht_last.queried <= ALPHA

\* ---------------------------------------------------------------------------
\* RoutingTableManager (routing/routing_manager.py)
\* ---------------------------------------------------------------------------

\* SpecRoute: the peers are 1 .. MaxRtPeers, the local node is 0
MaxRtPeers == 2
\* SpecRoute: calls and clock steps after construction
MaxRtOps == 3

\* reputation_score 1.0; scores are kept in units of 1/10000
REP_ONE == 10000
\* the floor max(0.1, ...) of update_node_reputation and the threshold
\* "reputation_score < 0.1"
REP_FLOOR == REP_ONE \div 10
\* latency = float('inf'); latencies are whole milliseconds
INF == 1000000000
\* RoutingTableManager.__init__: max_nodes = 100, health_check_interval = 60
MAX_NODES == 100
HEALTH_CHECK_INTERVAL == 60
\* cleanup_inactive_nodes: seconds without activity
INACTIVE_AFTER == 1800
\* the consecutive failures after which the specification marks a peer inactive
MAX_RPC_FAILURES == 3

LocalNodeId == 0
RtPeers == 1..MaxRtPeers
RtIds == {LocalNodeId} \cup RtPeers

\* a parameter left at its default None
NoArg == -1

\* NodeInfo(node_id, host, port, pub_key): the fields the operations below read
\* or write (host, port, pub_key, node_type and bandwidth are not among them)
NodeInfo(node_id, time) ==
    [node_id |-> node_id, last_seen |-> time, last_ping |-> time, ping_count |-> 0,
     ping_success |-> 0, failed_attempts |-> 0, reputation_score |-> REP_ONE,
     latency |-> INF, is_active |-> TRUE]

\* the position of node_id in the dict (kept in insertion order), 0 if absent
KeyIndex(table, node_id) ==
    LET hits == {i \in 1..Len(table) : table[i].node_id = node_id} IN
    IF hits = {} THEN 0 ELSE CHOOSE i \in hits : TRUE

\* RoutingTableManager._remove_least_active_node
\* an eviction of the oldest key of the dict, whatever its last_seen
remove_first_node(table) == IF table = << >> THEN table ELSE Tail(table)

remove_least_active_node(table) ==
    IF table = << >> THEN table
    ELSE LET oldest == {i \in 1..Len(table) : \A j \in 1..Len(table) : table[i].last_seen <= table[j].last_seen}
             least == CHOOSE i \in oldest : \A j \in oldest : i <= j
         IN SelectSeq(table, LAMBDA n : n.node_id # table[least].node_id)

\* RoutingTableManager.add_node without the test for the local id
rt_add_node_any(table, local_node_id, max_nodes, node_id, time) ==
    LET i == KeyIndex(table, node_id) IN
    IF i # 0
    THEN [table |-> [table EXCEPT ![i].last_seen = time, ![i].is_active = TRUE], returned |-> TRUE]
    ELSE [table |-> Append(IF Len(table) >= max_nodes THEN remove_least_active_node(table) ELSE table,
                           NodeInfo(node_id, time)),
          returned |-> TRUE]

\* RoutingTableManager.add_node
rt_add_node(table, local_node_id, max_nodes, node_id, time) ==
    LET i == KeyIndex(table, node_id) IN
    IF node_id = local_node_id
    THEN [table |-> table, returned |-> FALSE]
    ELSE IF i # 0
    THEN [table |-> [table EXCEPT ![i].last_seen = time, ![i].is_active = TRUE], returned |-> TRUE]
    ELSE [table |-> Append(IF Len(table) >= max_nodes THEN remove_least_active_node(table) ELSE table,
                           NodeInfo(node_id, time)),
          returned |-> TRUE]

\* RoutingTableManager.remove_node
rt_remove_node(table, node_id) ==
    IF KeyIndex(table, node_id) # 0
    THEN [table |-> SelectSeq(table, LAMBDA n : n.node_id # node_id), returned |-> TRUE]
    ELSE [table |-> table, returned |-> FALSE]

\* RoutingTableManager.update_node_status(node_id, is_active, latency);
\* is_active is "None", "True" or "False"
update_node_status(table, node_id, is_active, latency, time) ==
    LET i == KeyIndex(table, node_id) IN
    IF i = 0 THEN [table |-> table, returned |-> FALSE]
    ELSE LET n1 == IF is_active = "None" THEN table[i]
                   ELSE [table[i] EXCEPT !.is_active = (is_active = "True"), !.last_seen = time]
             n2 == IF latency = NoArg THEN n1
                   ELSE IF n1.latency = INF THEN [n1 EXCEPT !.latency = latency]
                   ELSE [n1 EXCEPT !.latency = (3 * latency + 7 * n1.latency) \div 10]
         IN [table |-> [table EXCEPT ![i] = n2], returned |-> TRUE]

\* min(1.0, x) and max(0.1, x)
RepMin(x) == IF x < REP_ONE THEN x ELSE REP_ONE
RepMax(x) == IF x > REP_FLOOR THEN x ELSE REP_FLOOR

\* RoutingTableManager.update_node_reputation(node_id, success, latency)
update_node_reputation(table, node_id, success, latency) ==
    LET i == KeyIndex(table, node_id) IN
    IF i = 0 THEN [table |-> table, returned |-> FALSE]
    ELSE LET n == table[i]
             ping_count == n.ping_count + 1
             ping_success == IF success THEN n.ping_success + 1 ELSE n.ping_success
             success_rate == (ping_success * REP_ONE) \div ping_count
             risen == RepMin((success_rate * 11) \div 10)
             reputation == IF success
                           THEN IF latency = NoArg THEN risen
                                ELSE IF latency < 100 THEN RepMin((risen * 105) \div 100)
                                ELSE IF latency > 1000 THEN RepMax((risen * 95) \div 100)
                                ELSE risen
                           ELSE RepMax((success_rate * 9) \div 10)
             n1 == [n EXCEPT !.ping_count = ping_count, !.ping_success = ping_success,
                             !.failed_attempts = IF success THEN @ ELSE @ + 1,
                             !.reputation_score = reputation,
                             !.is_active = IF reputation < REP_FLOOR THEN FALSE ELSE @]
         IN [table |-> [table EXCEPT ![i] = n1], returned |-> TRUE]

\* RoutingTableManager.cleanup_inactive_nodes
cleanup_inactive_nodes(table, time) ==
    [i \in 1..Len(table) |->
        IF time - table[i].last_seen > INACTIVE_AFTER THEN [table[i] EXCEPT !.is_active = FALSE]
        ELSE table[i]]

\* candidates.sort(key=lambda x: (x.reputation_score, -x.latency), reverse=True):
\* stable, entries with equal keys keep their order
SortByReputation(candidates) ==
    LET Greater(a, b) == \/ a.reputation_score > b.reputation_score
                         \/ (a.reputation_score = b.reputation_score /\ a.latency < b.latency)
        Before(j, i) == Greater(candidates[j], candidates[i])
                        \/ (~Greater(candidates[i], candidates[j]) /\ j < i)
        rank == [i \in 1..Len(candidates) |-> 1 + Cardinality({j \in 1..Len(candidates) : Before(j, i)})] @@ << >>
    IN [p \in 1..Len(candidates) |-> candidates[CHOOSE i \in 1..Len(candidates) : rank[i] = p]]

\* RoutingTableManager.get_optimal_route with the candidates in dict order
\* instead of sorted
get_optimal_route_unsorted(table, target_node_id, exclude_nodes) ==
    LET candidates == SelectSeq(table, LAMBDA n : /\ n.node_id # target_node_id
                                                   /\ n.node_id \notin exclude_nodes
                                                   /\ n.is_active)
    IN IF candidates = << >> THEN << >> ELSE <<candidates[1]>>

\* RoutingTableManager.get_optimal_route: << >> is None, <<n>> the node n
get_optimal_route(table, target_node_id, exclude_nodes) ==
    LET candidates == SelectSeq(table, LAMBDA n : /\ n.node_id # target_node_id
                                                   /\ n.node_id \notin exclude_nodes
                                                   /\ n.is_active)
    IN IF candidates = << >> THEN << >> ELSE <<SortByReputation(candidates)[1]>>

\* what a call leaves in rtm.last
RtLast(op, node_id, returned) == [op |-> op, node_id |-> node_id, returned |-> returned, route |-> << >>]

\* RoutingTableManager(local_node_id) or RoutingTableManager(local_node_id, max_nodes=1)
InitRoute ==
    /\ key_counter = 0
    /\ InitRatchetIdle
    /\ IdleSession
    /\ IdleServer
    /\ IdleObf
    /\ IdleStream
    /\ IdleSend
    /\ IdleDHT
    /\ IdleTwin
    /\ IdleChan
    /\ IdleBcast
    /\ IdleReplay
    /\ \E max_nodes \in {1, MAX_NODES} :
        rtm = [local_node_id |-> LocalNodeId, max_nodes |-> max_nodes, routing_table |-> << >>,
               time |-> 0, ops |-> 0, last |-> RtLast("init", LocalNodeId, TRUE)]

\* a route has been asked for: the last step of a behaviour
Routed == rtm.last.op = "get_optimal_route"

\* the state after a call that leaves table r.table and returns r.returned
RtCall(op, node_id, r) ==
    /\ ~Routed
    /\ rtm.ops < MaxRtOps
    /\ rtm' = [rtm EXCEPT !.routing_table = r.table, !.ops = @ + 1,
                          !.last = RtLast(op, node_id, r.returned)]
    /\ UNCHANGED notRoute

RtAddNode(node_id) ==
    RtCall("add_node", node_id, rt_add_node(rtm.routing_table, rtm.local_node_id, rtm.max_nodes, node_id, rtm.time))

RtRemoveNode(node_id) == RtCall("remove_node", node_id, rt_remove_node(rtm.routing_table, node_id))

UpdateNodeStatus(node_id, is_active, latency) ==
    RtCall("update_node_status", node_id, update_node_status(rtm.routing_table, node_id, is_active, latency, rtm.time))

UpdateNodeReputation(node_id, success, latency) ==
    RtCall("update_node_reputation", node_id, update_node_reputation(rtm.routing_table, node_id, success, latency))

CleanupInactiveNodes ==
    RtCall("cleanup_inactive_nodes", LocalNodeId, [table |-> cleanup_inactive_nodes(rtm.routing_table, rtm.time), returned |-> TRUE])

\* one round of the loop of _perform_health_check: _ping_node(node), which
\* answers within the timeout or not, then update_node_reputation
PingNode(node_id, success, latency) ==
    LET table == rtm.routing_table
        i == KeyIndex(table, node_id)
    IN
    /\ i # 0
    /\ table[i].is_active
    /\ rtm.time - table[i].last_ping > HEALTH_CHECK_INTERVAL * 2
    /\ LET pinged == IF success
                     THEN update_node_status(table, node_id, "None", latency, rtm.time).table
                     ELSE update_node_status(table, node_id, "False", NoArg, rtm.time).table
           reputed == update_node_reputation(pinged, node_id, success, NoArg).table
           done == IF success THEN [reputed EXCEPT ![i].last_ping = rtm.time] ELSE reputed
       IN RtCall(IF success THEN "ping_ok" ELSE "ping_failed", node_id, [table |-> done, returned |-> success])

\* time passes
RtTick(seconds) ==
    /\ ~Routed
    /\ rtm.ops < MaxRtOps
    /\ rtm' = [rtm EXCEPT !.time = @ + seconds, !.ops = @ + 1, !.last = RtLast("tick", LocalNodeId, TRUE)]
    /\ UNCHANGED notRoute

GetOptimalRoute(target_node_id, exclude_nodes) ==
    /\ ~Routed
    /\ rtm' = [rtm EXCEPT !.last = [op |-> "get_optimal_route", node_id |-> target_node_id,
                                    returned |-> TRUE, exclude |-> exclude_nodes,
                                    route |-> get_optimal_route(rtm.routing_table, target_node_id, exclude_nodes)]]
    /\ UNCHANGED notRoute

\* the latencies of the calls, in milliseconds
Latencies == {50, 2000}

NextRoute ==
    \/ \E node_id \in RtIds : RtAddNode(node_id)
    \/ \E node_id \in RtIds : RtRemoveNode(node_id)
    \/ \E node_id \in RtPeers : UpdateNodeStatus(node_id, "False", NoArg)
    \/ \E node_id \in RtPeers, latency \in Latencies : UpdateNodeStatus(node_id, "None", latency)
    \/ \E node_id \in RtPeers, success \in BOOLEAN, latency \in {NoArg} \cup Latencies :
            (success \/ latency = NoArg) /\ UpdateNodeReputation(node_id, success, latency)
    \/ CleanupInactiveNodes
    \/ \E node_id \in RtPeers, success \in BOOLEAN : PingNode(node_id, success, 50)
    \/ \E seconds \in {2 * HEALTH_CHECK_INTERVAL + 1, INACTIVE_AFTER + 1} : RtTick(seconds)
    \/ \E target_node_id \in RtIds, exclude_nodes \in SUBSET RtPeers :
            GetOptimalRoute(target_node_id, exclude_nodes)

SpecRoute == InitRoute /\ [][NextRoute]_vars

\* the entry of a node in the routing table
Entry(node_id) == rtm.routing_table[KeyIndex(rtm.routing_table, node_id)]

\* C23: a peer whose RPC has just failed, and that has failed fewer than
\* three times in all, is still active.
C23_InactiveAfterThreeFailures ==
    (rtm.last.op = "ping_failed" /\ Entry(rtm.last.node_id).failed_attempts < MAX_RPC_FAILURES)
    => Entry(rtm.last.node_id).is_active

\* ---------------------------------------------------------------------------
\* A node's own id: a KademliaDHT or a RoutingTableManager
\* ---------------------------------------------------------------------------

InitOwnId == InitDHT \/ InitRoute

NextOwnId ==
    \/ ~IdleDHT /\ NextDHT
    \/ ~IdleRoute /\ NextRoute

SpecOwnId == InitOwnId /\ [][NextOwnId]_vars

\* the local id is in no bucket, not in node_cache and not in the routing table
OwnIdAbsent ==
    /\ ~IdleDHT => /\ \A b \in DOMAIN buckets : local_id \notin BucketIds(buckets[b])
                   /\ local_id \notin DOMAIN node_cache
    /\ ~IdleRoute => KeyIndex(rtm.routing_table, rtm.local_node_id) = 0

\* add_node called with the local id changes nothing, and returns False in
\* RoutingTableManager
OwnIdAddIsNoOp ==
    /\ (~IdleDHT /\ dht_ops' = dht_ops + 1 /\ dht_last'.op = "add_node" /\ dht_last'.node_id = local_id)
       => (buckets' = buckets /\ node_cache' = node_cache)
    /\ (~IdleRoute /\ rtm'.ops = rtm.ops + 1 /\ rtm'.last.op = "add_node" /\ rtm'.last.node_id = rtm.local_node_id)
       => (rtm'.routing_table = rtm.routing_table /\ ~rtm'.last.returned)

Candidates ==
    {rtm.routing_table[i] : i \in {j \in 1..Len(rtm.routing_table) :
        /\ rtm.routing_table[j].is_active
        /\ rtm.routing_table[j].node_id # rtm.last.node_id
        /\ rtm.routing_table[j].node_id \notin rtm.last.exclude}}

\* C25: get_optimal_route returns None when there is no active node other than
\* the target and the excluded ones, and otherwise one of these nodes, of the
\* highest reputation among them and of the lowest latency among those of that
\* reputation.
C25_OptimalRoute ==
    Routed =>
        IF Candidates = {} THEN rtm.last.route = << >>
        ELSE /\ Len(rtm.last.route) = 1
             /\ rtm.last.route[1] \in Candidates
             /\ \A c \in Candidates :
                    /\ c.reputation_score <= rtm.last.route[1].reputation_score
                    /\ c.reputation_score = rtm.last.route[1].reputation_score
                       => rtm.last.route[1].latency <= c.latency

\* a route was returned that is not the first candidate of the table
C25_Witness ==
    /\ Routed
    /\ Len(rtm.last.route) = 1
    /\ \E i, j \in 1..Len(rtm.routing_table) :
        /\ i < j
        /\ rtm.routing_table[j] = rtm.last.route[1]
        /\ rtm.routing_table[i] \in Candidates

(***************************************************************************)
(* The skipped-key store of DoubleRatchet                                  *)
(***************************************************************************)
\* the saved keys of ratchet r are those of the numbers below the receive
\* counter for which no key has been handed out
StoreIsGap ==
    \A r \in Ratchets :
        DOMAIN ratchet[r].saved_keys = (0..(ratchet[r].recv_message_num - 1)) \ Consumed(r)

\* a successful get_next_recv_key(n): with n ahead of the receive counter c it
\* adds the n - c keys of c .. n-1 and changes no other entry, with n in the
\* store it removes the entry of n and no other, and with n = c the store is as
\* before
SkipStep ==
    (last' # last /\ last'.op = "recv" /\ last'.ok) =>
        LET n == last'.n
            old == ratchet[last'.r]
            new == ratchet'[last'.r]
            added == (DOMAIN new.saved_keys) \ (DOMAIN old.saved_keys)
        IN
        /\ \A i \in (DOMAIN new.saved_keys) \cap (DOMAIN old.saved_keys) : new.saved_keys[i] = old.saved_keys[i]
        /\ IF n \in DOMAIN old.saved_keys
           THEN DOMAIN new.saved_keys = (DOMAIN old.saved_keys) \ {n}
           ELSE /\ (DOMAIN old.saved_keys) \subseteq (DOMAIN new.saved_keys)
                /\ added = old.recv_message_num..(n - 1)
                /\ Cardinality(added) = n - old.recv_message_num

\* C26: a message number ahead of the receive counter adds exactly the keys of
\* the numbers skipped, a later arrival of one of them removes exactly its own
\* entry, and the store is empty once every number below the counter has been
\* delivered.
C26_SkippedKeyStore == []StoreIsGap /\ [][SkipStep]_vars

\* the highest number arrived before a lower one, and now every number has
\* been delivered
C26_Witness ==
    /\ last.op = "recv" /\ last.ok
    /\ last.n < MaxMsgNum
    /\ Consumed(last.r) = 0..MaxMsgNum
    /\ DOMAIN ratchet[last.r].saved_keys = {}

(***************************************************************************)
(* SpecTwin: two RatchetKeyManager objects built from one shared secret,   *)
(* as the two ends of a session hold them.  Each encrypts plaintexts and   *)
(* decrypts what the other has sent, in any order.                         *)
(***************************************************************************)
Runs == {1, 2}

OtherRun(run) == 3 - run

\* the shared secret both objects are built from
twin_shared_secret == "shared_secret"

InitTwin ==
    /\ key_counter = 0
    /\ InitRatchetIdle
    /\ IdleSession
    /\ IdleServer
    /\ IdleObf
    /\ IdleStream
    /\ IdleSend
    /\ IdleDHT
    /\ IdleRoute
    /\ IdleChan
    /\ IdleBcast
    /\ IdleReplay
    /\ twin = [rm |-> [run \in Runs |-> RatchetKeyManagerInit(twin_shared_secret, 2 * run - 2, 2 * run - 1)],
               out |-> [run \in Runs |-> << >>],
               received |-> [run \in Runs |-> FALSE],
               drawn |-> 0]

\* AdvancedCryptoManager.encrypt_message(session_id, plaintext) on the session
\* of run; the nonce is the next one nacl.utils.random draws.  The entry kept
\* holds the message key, the sender's get_send_ratchet_pub() and whether the
\* sender has called decrypt_message since its previous message.
TwinEncrypt(run, plaintext) ==
    /\ Len(twin.out[run]) < MaxTwinSends
    /\ LET enc == EncryptMessage(twin.rm[run], plaintext, random(twin.drawn + 1))
           key == ManagerGetNextSendKey(twin.rm[run]).msg_key
       IN twin' = [twin EXCEPT
                !.rm[run] = enc.rm,
                !.out[run] = Append(@, [plaintext |-> plaintext,
                                        msg_key |-> key,
                                        ratchet_pub |-> PublicKeyBytes(twin.rm[run].double_ratchet.send_ratchet_key),
                                        root_key |-> twin.rm[run].double_ratchet.root_key,
                                        new_turn |-> twin.received[run],
                                        encrypted_msg |-> enc.encrypted_msg]),
                !.received[run] = FALSE,
                !.drawn = @ + 1]
    /\ UNCHANGED notTwin

\* AdvancedCryptoManager.decrypt_message(session_id, encrypted_msg) on the
\* session of run, with the i-th message of the other end
TwinDecrypt(run, i) ==
    /\ i \in 1..Len(twin.out[OtherRun(run)])
    /\ LET d == DecryptMessage(twin.rm[run], twin.out[OtherRun(run)][i].encrypted_msg) IN
       twin' = [twin EXCEPT !.rm[run] = d.rm, !.received[run] = TRUE]
    /\ UNCHANGED notTwin

NextTwin ==
    \/ \E run \in Runs, plaintext \in Plaintexts : TwinEncrypt(run, plaintext)
    \/ \E run \in Runs, i \in 1..MaxTwinSends : TwinDecrypt(run, i)

SpecTwin == InitTwin /\ [][NextTwin]_vars

\* C27: when the two ends have sent the same plaintexts, their i-th messages
\* were encrypted under the same message key and have the same ciphertext
\* bytes.
C27_SameSecretSameCiphertexts ==
    \A i \in 1..MaxTwinSends :
        (/\ i <= Len(twin.out[1]) /\ i <= Len(twin.out[2])
         /\ \A j \in 1..i : twin.out[1][j].plaintext = twin.out[2][j].plaintext)
        => /\ twin.out[1][i].msg_key = twin.out[2][i].msg_key
           /\ twin.out[1][i].encrypted_msg.ciphertext = twin.out[2][i].encrypted_msg.ciphertext

\* C29: a message sent after its sender has received a reply carries a ratchet
\* public key other than that of the sender's earlier messages, the sender's
\* root key having changed.
C29_NewTurnNewRatchetKey ==
    \A run \in Runs : \A i, j \in 1..Len(twin.out[run]) :
        (i < j /\ twin.out[run][j].new_turn)
        => /\ twin.out[run][j].ratchet_pub # twin.out[run][i].ratchet_pub
           /\ twin.out[run][j].root_key # twin.out[run][i].root_key

(***************************************************************************)
(* The overlay identifier and the DH ratchet step                          *)
(***************************************************************************)
\* C28: the node id a manager gives out, which SecureNodeServer.start hands to
\* DHTNode as the overlay id, is the whole SHA-256 of its identity public key.
C28_NodeIdIsFullSha256 ==
    \A i \in 1..Len(bundles) :
        bundles[i].info = GetIdentityInfo(x3dh[bundles[i].owner])
        => bundles[i].info.node_id
               = sha256(PublicKeyBytes(x3dh[bundles[i].owner].identity_private_key))

\* the ratchet private keys ratchet r holds
OwnRatchetKeys(r) == {ratchet[r].send_ratchet_key, ratchet[r].recv_ratchet_key}

\* a set_peer_ratchet_pub step of ratchet r with the peer key P leaves the root
\* key and the receive chain key derived from DH(own ratchet private key, P)
DerivedFromPeerKey(r, P) ==
    \E own \in OwnRatchetKeys(r) :
        LET root_key == hkdf(ratchet[r].root_key \o crypto_scalarmult(PrivateKeyBytes(own), P),
                             "update_root_key")
        IN /\ ratchet'[r].root_key = root_key
           /\ ratchet'[r].recv_chain_key = hkdf(root_key, "recv_chain_key")

DHRatchetStep ==
    (key_counter' = key_counter + 1 /\ last'.op = "set_peer_ratchet_pub")
    => DerivedFromPeerKey(last'.r, PublicKeyBytes(ratchet[3 - last'.r].send_ratchet_key))

\* C30: a DH ratchet step triggered by the peer's ratchet public key P derives
\* the new root key and receive chain key from DH(own ratchet private key, P).
C30_StepUsesPeerKey == [][DHRatchetStep]_vars

(***************************************************************************)
(* The counters and the keys across a DH ratchet step                      *)
(***************************************************************************)
\* the step is advance_recv_chain or set_peer_ratchet_pub of ratchet last'.r
IsRatchetStep ==
    /\ key_counter' = key_counter + 1
    /\ last'.op \in {"advance_recv_chain", "set_peer_ratchet_pub"}

CountersReset ==
    IsRatchetStep
    => /\ ratchet'[last'.r].previous_send_chain_length = ratchet[last'.r].send_message_num
       /\ ratchet'[last'.r].send_message_num = 0
       /\ ratchet'[last'.r].recv_message_num = 0

\* C31: every DH ratchet step sets previous_send_chain_length to the value
\* send_message_num had before the step, and sets send_message_num and
\* recv_message_num to 0.
C31_StepResetsCounters == [][CountersReset]_vars

\* the root key of a ratchet changes in its own ratchet steps and in no other step
RootKeyChangesInStepsOnly ==
    \A r \in Ratchets :
        (ratchet'[r].root_key # ratchet[r].root_key) <=> (IsRatchetStep /\ last'.r = r)

RootKeyStep ==
    /\ RootKeyChangesInStepsOnly
    /\ IsRatchetStep
       => /\ ratchet'[last'.r].send_chain_key = hkdf(ratchet'[last'.r].root_key, "send_chain_key")
          /\ ratchet'[last'.r].recv_chain_key = hkdf(ratchet'[last'.r].root_key, "recv_chain_key")

\* C32: the root key of a ratchet changes exactly in its DH ratchet steps, and
\* after such a step its send chain key and its receive chain key are both
\* derived from the new root key.
C32_RootKeyAndChains == [][RootKeyStep]_vars

(***************************************************************************)
(* Re-observed peers and full buckets                                      *)
(***************************************************************************)
\* the positions of the records of node_id in a bucket
RecordsOf(nodes, node_id) == {i \in 1..Len(nodes) : nodes[i].node_id = node_id}

\* add_node of a peer that has exactly one record in its bucket leaves exactly
\* one record of it, in the last (most recent) position
ReobservedOnce ==
    AddedPeer
    => LET node_id == dht_last'.node_id
           bucket_idx == get_bucket_index(local_id, node_id)
       IN Cardinality(RecordsOf(buckets[bucket_idx], node_id)) = 1
          => /\ Cardinality(RecordsOf(buckets'[bucket_idx], node_id)) = 1
             /\ buckets'[bucket_idx][Len(buckets'[bucket_idx])].node_id = node_id

\* C33: observing a peer whose id is already in its bucket leaves exactly one
\* record for that id in the bucket, in the most-recent slot, so that no
\* bucket comes to hold two records with one id.
C33_ReobservedPeerKeptOnce == [][ReobservedOnce]_vars

\* add_node of an id the table does not hold, the table being full
AddToFullTable ==
    /\ rtm'.ops = rtm.ops + 1
    /\ rtm'.last.op = "add_node"
    /\ rtm'.last.node_id # rtm.local_node_id
    /\ KeyIndex(rtm.routing_table, rtm'.last.node_id) = 0
    /\ Len(rtm.routing_table) >= rtm.max_nodes

\* entry i of the table is a least-recently-seen one
LeastRecentlySeen(table, i) == \A j \in 1..Len(table) : table[i].last_seen <= table[j].last_seen

\* what the table records of a peer that did not answer: _ping_node sets
\* is_active False, update_node_reputation counts failed_attempts
HasFailed(n) == ~n.is_active \/ n.failed_attempts > 0

DisplacedOnlyIfFailed ==
    AddToFullTable
    => \A i \in 1..Len(rtm.routing_table) :
          KeyIndex(rtm'.routing_table, rtm.routing_table[i].node_id) = 0
          => /\ LeastRecentlySeen(rtm.routing_table, i)
             /\ HasFailed(rtm.routing_table[i])

\* C34: when a new peer is added and there is no room for it, an entry is
\* displaced only if it is the least-recently-seen one and it has failed a
\* liveness check; if it answers, the new peer is dropped.
C34_FullTableDisplacesOnlyDead == [][DisplacedOnlyIfFailed]_vars

(***************************************************************************)
(* SpecChan: the tasks of a node that send frames on one connection        *)
(* (send_secure_message from the handler and from broadcast_message,       *)
(* P2PProtocol.send_json alike): each frame is two writer.write calls, the *)
(* 4-byte length and the payload, followed by await writer.drain().  The   *)
(* transport empties the write buffer in the order of the writes.          *)
(***************************************************************************)
\* what one writer.write call appends to the write buffer
Header(frame, t) == [part |-> "header", frame |-> frame, task |-> t]
Payload(frame, t) == [part |-> "payload", frame |-> frame, task |-> t]

\* bytes of the chunks in the write buffer
ChunkBytes(chunk) == IF chunk.part = "header" THEN 4 ELSE FrameBytes - 4

RECURSIVE BufferBytes(_)
BufferBytes(chunks) ==
    IF chunks = << >> THEN 0 ELSE ChunkBytes(Head(chunks)) + BufferBytes(Tail(chunks))

InitChan ==
    /\ key_counter = 0
    /\ InitRatchetIdle
    /\ IdleSession
    /\ IdleServer
    /\ IdleObf
    /\ IdleStream
    /\ IdleSend
    /\ IdleDHT
    /\ IdleRoute
    /\ IdleTwin
    /\ IdleBcast
    /\ IdleReplay
    /\ chan = [pc |-> [t \in Tasks |-> "idle"], frames |-> 0, buffer |-> << >>,
               paused |-> FALSE, wire |-> << >>]

\* the bytes of the connection in wire order: those sent and those to be sent
Stream == chan.wire \o chan.buffer

\* the frame of task t whose header is written and whose payload is not
HalfWritten(t) ==
    CHOOSE f \in 0..(MaxChanFrames - 1) :
        /\ \E i \in 1..Len(Stream) : Stream[i] = Header(f, t)
        /\ \A i \in 1..Len(Stream) : Stream[i] # Payload(f, t)

\* a send that gives way to other tasks between its two writes
ChanSendYield(t) ==
    /\ chan.pc[t] \in {"idle", "header_written"}
    /\ IF chan.pc[t] = "idle"
       THEN /\ chan.frames < MaxChanFrames
            /\ chan' = [chan EXCEPT !.pc[t] = "header_written", !.frames = @ + 1,
                                    !.buffer = Append(@, Header(chan.frames, t))]
       ELSE chan' = [chan EXCEPT !.pc[t] = "drain",
                                 !.buffer = Append(@, Payload(HalfWritten(t), t))]
    /\ UNCHANGED notChan

\* send_secure_message / send_json of task t up to its await: the message is
\* encrypted and encoded, then writer.write(struct.pack('>I', len)) and
\* writer.write(msg_bytes) run one after the other with no await in between
ChanSend(t) ==
    /\ chan.pc[t] = "idle"
    /\ chan.frames < MaxChanFrames
    /\ LET chunks == chan.buffer \o <<Header(chan.frames, t), Payload(chan.frames, t)>> IN
       chan' = [chan EXCEPT !.pc[t] = "drain", !.frames = @ + 1, !.buffer = chunks,
                            !.paused = (@ \/ BufferBytes(chunks) > HIGH_WATER)]
    /\ UNCHANGED notChan

\* await writer.drain() of task t returns: writing is not paused
ChanDrain(t) ==
    /\ chan.pc[t] = "drain"
    /\ ~chan.paused
    /\ chan' = [chan EXCEPT !.pc[t] = "idle"]
    /\ UNCHANGED notChan

\* the transport puts the oldest chunk of the write buffer on the wire
ChanFlush ==
    /\ chan.buffer # << >>
    /\ chan' = [chan EXCEPT !.wire = Append(@, Head(chan.buffer)), !.buffer = Tail(@),
                            !.paused = (@ /\ BufferBytes(Tail(chan.buffer)) > LOW_WATER)]
    /\ UNCHANGED notChan

NextChan ==
    \/ \E t \in Tasks : ChanSend(t)
    \/ \E t \in Tasks : ChanDrain(t)
    \/ ChanFlush

SpecChan == InitChan /\ [][NextChan]_vars

\* C35: on the connection what follows a length header is the whole payload
\* of its own frame, and every payload immediately follows its own header,
\* whichever tasks send: the frames of two tasks never interleave.
C35_FramesNeverInterleave ==
    \A i \in 1..Len(Stream) :
        IF Stream[i].part = "header"
        THEN i < Len(Stream) => Stream[i + 1] = Payload(Stream[i].frame, Stream[i].task)
        ELSE i > 1 /\ Stream[i - 1] = Header(Stream[i].frame, Stream[i].task)

\* both tasks have frames on the wire, both are suspended in drain, and the
\* transport has sent the header of a frame whose payload is still buffered
C35_Witness ==
    /\ \A t \in Tasks : chan.pc[t] = "drain"
    /\ \A t \in Tasks : \E i \in 1..Len(chan.wire) : chan.wire[i].task = t
    /\ chan.wire # << >>
    /\ chan.wire[Len(chan.wire)].part = "header"
    /\ chan.buffer # << >>

(***************************************************************************)
(* SpecBroadcast: one broadcast_message call of a SecureNodeServer.  It    *)
(* iterates over self.peer_connections.items() and is suspended in each    *)
(* send; while it is suspended the reader task of a connection             *)
(* (_handle_peer_messages) may end and delete its entry.                   *)
(***************************************************************************)
\* the sessions in peer_connections, in insertion order
BcastSessions == <<"session_0", "session_1", "session_2">>

\* the exception a dict iterator raises when the dict has another size than
\* when the iteration began
RuntimeError == "RuntimeError: dictionary changed size during iteration"

\* del d[key]: the keys of the dict without key, in insertion order
DictDel(keys, key) == SelectSeq(keys, LAMBDA k : k # key)

InDict(keys, key) == \E i \in 1..Len(keys) : keys[i] = key

InitBroadcast ==
    /\ key_counter = 0
    /\ InitRatchetIdle
    /\ IdleSession
    /\ IdleServer
    /\ IdleObf
    /\ IdleStream
    /\ IdleSend
    /\ IdleDHT
    /\ IdleRoute
    /\ IdleTwin
    /\ IdleChan
    /\ IdleReplay
    /\ \E n \in 1..Len(BcastSessions), exclude_session \in {None, BcastSessions[1]} :
        bcast = [peer_connections |-> SubSeq(BcastSessions, 1, n),
                 exclude_session |-> exclude_session,
                 pc |-> "for",
                 entries |-> SubSeq(BcastSessions, 1, n),
                 di_used |-> n,
                 di_pos |-> 1,
                 session_id |-> None,
                 attempted |-> {},
                 successful_sends |-> 0,
                 raised |-> None,
                 returned |-> NoArg]

\* the for statement takes the next item of peer_connections.items(): the
\* iterator raises if the dict has changed size, stops after the last entry
\* (the function returns successful_sends), skips the excluded session, and
\* otherwise the body starts its send
BroadcastNext ==
    /\ bcast.pc = "for"
    /\ IF Len(bcast.peer_connections) # bcast.di_used
       THEN bcast' = [bcast EXCEPT !.pc = "done", !.raised = RuntimeError]
       ELSE IF bcast.di_pos > Len(bcast.entries)
       THEN bcast' = [bcast EXCEPT !.pc = "done", !.returned = bcast.successful_sends]
       ELSE IF bcast.entries[bcast.di_pos] = bcast.exclude_session
       THEN bcast' = [bcast EXCEPT !.di_pos = @ + 1]
       ELSE bcast' = [bcast EXCEPT !.di_pos = @ + 1, !.pc = "send",
                                   !.session_id = bcast.entries[bcast.di_pos],
                                   !.attempted = @ \cup {bcast.entries[bcast.di_pos]}]
    /\ UNCHANGED notBcast

\* await send_secure_message(...) ends: it returned (successful_sends += 1) or
\* it raised (the entry is deleted if it is still there)
BroadcastSent(ok) ==
    /\ bcast.pc = "send"
    /\ bcast' = IF ok
                THEN [bcast EXCEPT !.pc = "for", !.successful_sends = @ + 1]
                ELSE [bcast EXCEPT !.pc = "for",
                                   !.peer_connections = DictDel(@, bcast.session_id)]
    /\ UNCHANGED notBcast

\* the finally clause of _handle_peer_messages for session_id, run while the
\* broadcast is suspended in a send
ReaderEnds(session_id) ==
    /\ bcast.pc = "send"
    /\ InDict(bcast.peer_connections, session_id)
    /\ bcast' = [bcast EXCEPT !.peer_connections = DictDel(@, session_id)]
    /\ UNCHANGED notBcast

NextBroadcast ==
    \/ BroadcastNext
    \/ \E ok \in BOOLEAN : BroadcastSent(ok)
    \/ \E i \in 1..Len(BcastSessions) : ReaderEnds(BcastSessions[i])

SpecBroadcast == InitBroadcast /\ [][NextBroadcast]_vars

\* C36: a broadcast_message call that has ended has returned the number of
\* its successful sends and has attempted every peer that is still connected,
\* the excluded session apart, whether or not a send failed or a reader task
\* removed a connection meanwhile.
C36_BroadcastReachesAll ==
    bcast.pc = "done"
    => /\ bcast.raised = None
       /\ bcast.returned = bcast.successful_sends
       /\ \A i \in 1..Len(bcast.peer_connections) :
             bcast.peer_connections[i] # bcast.exclude_session
             => bcast.peer_connections[i] \in bcast.attempted

(***************************************************************************)
(* last_seen, the health check and the size of the routing table           *)
(***************************************************************************)
\* the entry of node_id in a routing table
EntryIn(table, node_id) == table[KeyIndex(table, node_id)]

\* a ping that failed or timed out marks the peer inactive and leaves its
\* last_seen as it was
FailedPingKeepsLastSeen ==
    (rtm'.ops = rtm.ops + 1 /\ rtm'.last.op = "ping_failed")
    => /\ ~EntryIn(rtm'.routing_table, rtm'.last.node_id).is_active
       /\ EntryIn(rtm'.routing_table, rtm'.last.node_id).last_seen
              = EntryIn(rtm.routing_table, rtm'.last.node_id).last_seen

\* C37: a failed or timed-out ping marks the peer inactive without advancing
\* its last_seen: last_seen advances only when the peer is observed.
C37_FailedPingNotSeen == [][FailedPingKeepsLastSeen]_vars

(***************************************************************************)
(* SpecHealth: the health-check task of a RoutingTableManager              *)
(* (_health_check_loop: sleep, then _perform_health_check) over a table of *)
(* MaxHealthPeers peers, while add_node is called for peers in between.    *)
(***************************************************************************)
\* _perform_health_check checks at most this many nodes a round
HEALTH_CHECK_BATCH == 5

HealthPeers == 1..MaxHealthPeers

\* RoutingTableManager.get_all_nodes
get_all_nodes(table) == table

\* RoutingTableManager.get_active_nodes
get_active_nodes(table) == SelectSeq(table, LAMBDA n : n.is_active)

\* the node ids of nodes_to_check in _perform_health_check
nodes_to_check(table, interval, time) ==
    LET due == SelectSeq(get_active_nodes(table), LAMBDA n : time - n.last_ping > interval * 2)
    IN [i \in 1..(IF Len(due) < HEALTH_CHECK_BATCH THEN Len(due) ELSE HEALTH_CHECK_BATCH) |->
            due[i].node_id]

InitHealth ==
    /\ key_counter = 0
    /\ InitRatchetIdle
    /\ IdleSession
    /\ IdleServer
    /\ IdleObf
    /\ IdleStream
    /\ IdleSend
    /\ IdleDHT
    /\ IdleTwin
    /\ IdleChan
    /\ IdleBcast
    /\ IdleReplay
    /\ rtm = [local_node_id |-> LocalNodeId, max_nodes |-> MAX_NODES,
              routing_table |-> [i \in HealthPeers |-> NodeInfo(i, 0)],
              time |-> 0, last |-> RtLast("init", LocalNodeId, TRUE),
              pc |-> "sleep", rounds |-> 0, adds |-> 0,
              nodes_to_check |-> << >>, pinged |-> << >>]

\* add_node(node_id, ...) by any other task
HealthAddNode(node_id) ==
    /\ rtm.adds < MaxHealthAdds
    /\ LET r == rt_add_node(rtm.routing_table, rtm.local_node_id, rtm.max_nodes, node_id, rtm.time) IN
       rtm' = [rtm EXCEPT !.routing_table = r.table, !.adds = @ + 1,
                          !.last = RtLast("add_node", node_id, r.returned)]
    /\ UNCHANGED notRoute

\* _health_check_loop: asyncio.sleep(health_check_interval) returns and
\* _perform_health_check selects the nodes of this round
HealthCheckRound ==
    /\ rtm.pc = "sleep"
    /\ rtm.rounds < MaxHealthRounds
    /\ LET time == rtm.time + HEALTH_CHECK_INTERVAL + 1
           chosen == nodes_to_check(rtm.routing_table, HEALTH_CHECK_INTERVAL, time)
       IN rtm' = [rtm EXCEPT !.time = time, !.rounds = @ + 1,
                             !.nodes_to_check = chosen, !.pinged = << >>,
                             !.pc = IF chosen = << >> THEN "sleep" ELSE "ping",
                             !.last = RtLast("health_check", LocalNodeId, TRUE)]
    /\ UNCHANGED notRoute

\* one turn of the for loop of _perform_health_check: _ping_node of the next
\* node succeeds or fails, then update_node_reputation and last_ping
HealthCheckPing(success, latency) ==
    /\ rtm.pc = "ping"
    /\ LET node_id == Head(rtm.nodes_to_check)
           table == rtm.routing_table
           i == KeyIndex(table, node_id)
           pinged == IF success
                     THEN update_node_status(table, node_id, "None", latency, rtm.time).table
                     ELSE update_node_status(table, node_id, "False", NoArg, rtm.time).table
           reputed == update_node_reputation(pinged, node_id, success, NoArg).table
           done == IF success THEN [reputed EXCEPT ![i].last_ping = rtm.time] ELSE reputed
       IN rtm' = [rtm EXCEPT !.routing_table = done,
                             !.nodes_to_check = Tail(@),
                             !.pinged = Append(@, node_id),
                             !.pc = IF Tail(rtm.nodes_to_check) = << >> THEN "sleep" ELSE "ping",
                             !.last = RtLast(IF success THEN "ping_ok" ELSE "ping_failed",
                                             node_id, success)]
    /\ UNCHANGED notRoute

NextHealth ==
    \/ \E node_id \in HealthPeers : HealthAddNode(node_id)
    \/ HealthCheckRound
    \/ \E success \in BOOLEAN : HealthCheckPing(success, 50)

SpecHealth == InitHealth /\ [][NextHealth]_vars

\* a round has pinged at most HEALTH_CHECK_BATCH peers, none of them twice
RoundIsBounded ==
    /\ Len(rtm.pinged) + Len(rtm.nodes_to_check) <= HEALTH_CHECK_BATCH
    /\ \A i, j \in 1..Len(rtm.pinged) : rtm.pinged[i] = rtm.pinged[j] => i = j

\* a ping is of a peer marked active, and a peer that is inactive becomes
\* active only in an add_node call for it
HealthStep ==
    /\ rtm'.last.op \in {"ping_ok", "ping_failed"} /\ rtm'.pinged # rtm.pinged
       => EntryIn(rtm.routing_table, rtm'.last.node_id).is_active
    /\ \A i \in 1..Len(rtm.routing_table) :
          (~rtm.routing_table[i].is_active /\ rtm'.routing_table[i].is_active)
          => /\ rtm'.adds = rtm.adds + 1
             /\ rtm'.last.op = "add_node"
             /\ rtm'.last.node_id = rtm.routing_table[i].node_id

TablePeers == 1..(MaxRtPeers + 1)

\* tables add_node has filled in one order and the other
FullTables ==
    {[i \in 1..MaxRtPeers |-> [NodeInfo(i, 0) EXCEPT !.last_seen = i]],
     [i \in 1..MaxRtPeers |-> [NodeInfo(i, 0) EXCEPT !.last_seen = MaxRtPeers + 1 - i]]}

InitTable ==
    /\ key_counter = 0
    /\ InitRatchetIdle
    /\ IdleSession
    /\ IdleServer
    /\ IdleObf
    /\ IdleStream
    /\ IdleSend
    /\ IdleDHT
    /\ IdleTwin
    /\ IdleChan
    /\ IdleBcast
    /\ IdleReplay
    /\ \E table \in {<< >>} \cup FullTables :
        rtm = [local_node_id |-> LocalNodeId, max_nodes |-> MaxRtPeers, routing_table |-> table,
               time |-> MaxRtPeers, ops |-> 0, last |-> RtLast("init", LocalNodeId, TRUE)]

NextTable ==
    \/ \E node_id \in {LocalNodeId} \cup TablePeers : RtAddNode(node_id)
    \/ \E node_id \in TablePeers : RtRemoveNode(node_id)
    \/ \E node_id \in TablePeers : UpdateNodeStatus(node_id, "False", NoArg)
    \/ \E node_id \in TablePeers, latency \in Latencies : UpdateNodeStatus(node_id, "None", latency)
    \/ \E seconds \in {1} : RtTick(seconds)

SpecTable == InitTable /\ [][NextTable]_vars

\* the keys of a routing table
TableKeys(table) == {table[i].node_id : i \in 1..Len(table)}

TableBounded == Len(rtm.routing_table) <= rtm.max_nodes

\* what an add_node call for a peer does to the keys of the table
AddEvictsOldest ==
    (rtm'.ops = rtm.ops + 1 /\ rtm'.last.op = "add_node" /\ rtm'.last.node_id # rtm.local_node_id)
    => LET table == rtm.routing_table
           node_id == rtm'.last.node_id
           evicted == {i \in 1..Len(table) : table[i].node_id \notin TableKeys(rtm'.routing_table)}
       IN IF node_id \in TableKeys(table) \/ Len(table) < rtm.max_nodes
          THEN TableKeys(rtm'.routing_table) = TableKeys(table) \cup {node_id}
          ELSE /\ Cardinality(evicted) = 1
               /\ \A i \in evicted : LeastRecentlySeen(table, i)
               /\ TableKeys(rtm'.routing_table)
                      = (TableKeys(table) \ {table[i].node_id : i \in evicted}) \cup {node_id}

\* C39: the routing table never holds more than max_nodes entries; add_node
\* of a new id to a full table evicts exactly one entry, one with the smallest
\* last_seen, and add_node of an id already present evicts nothing.
C39_TableBoundedEvictsOldest == []TableBounded /\ [][AddEvictsOldest]_vars

\* a new peer has been added to a full table whose first key was not the
\* least recently seen one
C39_Witness ==
    /\ rtm.last.op = "add_node"
    /\ Len(rtm.routing_table) = rtm.max_nodes
    /\ rtm.routing_table[Len(rtm.routing_table)].node_id = rtm.last.node_id
    /\ rtm.routing_table[Len(rtm.routing_table)].last_seen > rtm.routing_table[1].last_seen
    /\ rtm.routing_table[1].node_id = 1
    /\ rtm.last.node_id = MaxRtPeers + 1

(***************************************************************************)
(* SpecReplay: an AntiReplayManager and the is_replay_attack calls of      *)
(* ChatNode.handle_message for the messages of one sender, which carry     *)
(* fresh nonces or repeat a nonce used before.                             *)
(***************************************************************************)
\* the size above which the nonces of a sender are cut, and how many are removed
NONCE_CACHE_LIMIT == 1000
NONCE_CACHE_CUT == 500

\* AntiReplayManager.__init__ default
MAX_AGE == 300

ReplaySender == "node_1"

\* list(nonces)[:NONCE_CACHE_CUT]: the first items in the iteration order of
\* the set, which is that of its hash table; the two extreme orders
FirstItems(nonces, order) ==
    IF order = "ascending"
    THEN {n \in nonces : Cardinality({m \in nonces : m < n}) < NONCE_CACHE_CUT}
    ELSE {n \in nonces : Cardinality({m \in nonces : m > n}) < NONCE_CACHE_CUT}

Abs(x) == IF x < 0 THEN -x ELSE x

\* AntiReplayManager.is_replay_attack; None is NoArg for numbers, << >> is a
\* sender without an entry in node_nonces
is_replay_attack(r, msg_id, timestamp, nonce, sender_id, current_time, order) ==
    IF msg_id # None /\ msg_id \in r.received_messages
    THEN [r |-> r, returned |-> TRUE]
    ELSE IF timestamp # NoArg /\ timestamp # 0 /\ Abs(current_time - timestamp) > MAX_AGE
    THEN [r |-> r, returned |-> TRUE]
    ELSE IF nonce # NoArg /\ nonce # 0 /\ sender_id # None
    THEN IF sender_id \in DOMAIN r.node_nonces /\ nonce \in r.node_nonces[sender_id]
         THEN [r |-> r, returned |-> TRUE]
         ELSE LET known == IF sender_id \in DOMAIN r.node_nonces THEN r.node_nonces[sender_id] ELSE {}
                  added == known \cup {nonce}
                  kept == IF Cardinality(added) > NONCE_CACHE_LIMIT
                          THEN added \ FirstItems(added, order)
                          ELSE added
              IN [r |-> [r EXCEPT !.node_nonces = (sender_id :> kept) @@ r.node_nonces],
                  returned |-> FALSE]
    ELSE [r |-> r, returned |-> FALSE]

InitReplay ==
    /\ key_counter = 0
    /\ InitRatchetIdle
    /\ IdleSession
    /\ IdleServer
    /\ IdleObf
    /\ IdleStream
    /\ IdleSend
    /\ IdleDHT
    /\ IdleRoute
    /\ IdleTwin
    /\ IdleChan
    /\ IdleBcast
    /\ replay = [manager |-> [received_messages |-> {}, node_nonces |-> << >>],
                 time |-> 0,
                 fresh |-> 0,
                 accepted |-> {},
                 last |-> [nonce |-> 0, repeated |-> FALSE, returned |-> FALSE]]

\* handle_message of a message of the sender with this nonce (no msg_id, the
\* timestamp of the moment): is_replay_attack(None, timestamp, nonce, sender)
IsReplayAttack(nonce, order) ==
    LET call == is_replay_attack(replay.manager, None, replay.time, nonce, ReplaySender,
                                replay.time, order)
    IN replay' = [replay EXCEPT !.manager = call.r,
                                !.fresh = IF nonce > @ THEN nonce ELSE @,
                                !.accepted = IF call.returned THEN @ ELSE @ \cup {nonce},
                                !.last = [nonce |-> nonce, repeated |-> nonce \in replay.accepted,
                                          returned |-> call.returned]]

\* a message with a nonce the sender has not used before
FreshNonce(order) ==
    /\ replay.fresh < MaxNonces
    /\ IsReplayAttack(replay.fresh + 1, order)
    /\ UNCHANGED notReplay

\* a message that repeats the first or the latest nonce of the sender
RepeatedNonce(nonce, order) ==
    /\ nonce \in {1, replay.fresh}
    /\ nonce \in replay.accepted
    /\ IsReplayAttack(nonce, order)
    /\ UNCHANGED notReplay

\* time passes
ReplayTick ==
    /\ replay.time < MaxReplayTime
    /\ replay' = [replay EXCEPT !.time = @ + 1]
    /\ UNCHANGED notReplay

NextReplay ==
    \/ \E order \in {"ascending", "descending"} : FreshNonce(order)
    \/ \E nonce \in 1..MaxNonces, order \in {"ascending", "descending"} : RepeatedNonce(nonce, order)
    \/ ReplayTick

SpecReplay == InitReplay /\ [][NextReplay]_vars

\* C40: a (sender_id, nonce) pair is accepted at most once: a call with a
\* nonce for which is_replay_attack has returned False before returns True,
\* however many other nonces the sender has used in between.
C40_NonceAcceptedOnce == replay.last.repeated => replay.last.returned

====
